---- MODULE Spec2Model ----
(***************************************************************************)
(* Narrative log service: the add / edit / delete handlers over the        *)
(* message table and the jira_fields table.                                *)
(*                                                                         *)
(* Values.  A column value or request parameter that Python holds as       *)
(* None is NULL (the empty tuple); a value v that is present is Some(v).   *)
(* The primary key "id" and the generated column "is_valid" are held raw.  *)
(* A Python dict / table row is a function whose DOMAIN is its key set.    *)
(* A tag is a sequence of one-character strings so that the regular        *)
(* expression and str.lower can be computed character by character.        *)
(* A datetime is a pair <<t, tzinfo>>; tzinfo is "naive" or "UTC".         *)
(***************************************************************************)
EXTENDS Integers, Sequences, FiniteSets, TLC

VARIABLES messages, jira_fields, now, resp, txn, shared_state, databases, calls, last_call

vars == <<messages, jira_fields, now, resp, txn, shared_state, databases, calls, last_call>>

\* The application's shared state and the calls that create and delete it.
lifecycle == <<shared_state, databases, calls, last_call>>

\* Last value of the clock (astropy.time.Time.now()); a request served on
\* its own reads a later value than the request before it.
MaxTime == 4

\* Number of requests that may be in flight at the same time.
NumTxns == 2

NULL == <<>>
Some(v) == <<v>>
Val(x) == x[1]

\* SITE_ID of the running service (state.site_id).
SITE_ID == "test"

HTTP_OK == 200
HTTP_NO_CONTENT == 204
HTTP_BAD_REQUEST == 400
HTTP_NOT_FOUND == 404
HTTP_UNPROCESSABLE_ENTITY == 422
HTTP_INTERNAL_SERVER_ERROR == 500

\* ---------------------------------------------------------------------
\* Python dict helpers
\* ---------------------------------------------------------------------
\* d.update(e): keys of e win.
DictUpdate(d, e) == [k \in (DOMAIN d) \cup (DOMAIN e) |->
                       IF k \in DOMAIN e THEN e[k] ELSE d[k]]

\* del d[k] for every k in ks.
DictDel(d, ks) == [k \in (DOMAIN d) \ ks |-> d[k]]

\* {k: v for k, v in d.items() if k in ks}
DictFilter(d, ks) == [k \in (DOMAIN d) \cap ks |-> d[k]]

\* ---------------------------------------------------------------------
\* Tag normalisation
\* ---------------------------------------------------------------------
Letters == {"a", "b", "z", "A", "B"}
Digits == {"1"}

\* str.lower over the characters of the model alphabet.
Lower(c) == CASE c = "A" -> "a"
              [] c = "B" -> "b"
              [] OTHER -> c

TagLower(tag) == [i \in 1..Len(tag) |-> Lower(tag[i])]

\* ^[a-zA-Z][a-zA-Z0-9_]+$ anchored at the start of the tag; Python's "$"
\* also matches just before one trailing newline.
FullMatch(s) ==
    /\ Len(s) >= 2
    /\ s[1] \in Letters
    /\ \A i \in 2..Len(s) : s[i] \in Letters \cup Digits \cup {"_"}

VALID_TAG_RE(tag) ==
    \/ FullMatch(tag)
    \/ /\ Len(tag) >= 1
       /\ tag[Len(tag)] = "\n"
       /\ FullMatch(SubSeq(tag, 1, Len(tag) - 1))

\* The characters of tags in the order of their code points.
CharCollation == <<"\n", "1", "A", "B", "_", "a", "b", "z">>

CharRank(c) == CHOOSE i \in DOMAIN CharCollation : CharCollation[i] = c

RECURSIVE KeyLess(_, _)
\* Sequences of integers compared item by item, a prefix first.
KeyLess(a, b) ==
    IF b = <<>> THEN FALSE
    ELSE IF a = <<>> THEN TRUE
    ELSE IF Head(a) = Head(b) THEN KeyLess(Tail(a), Tail(b))
    ELSE Head(a) < Head(b)

\* tag1 < tag2 of two str.
TagLess(tag1, tag2) ==
    KeyLess([i \in DOMAIN tag1 |-> CharRank(tag1[i])],
            [i \in DOMAIN tag2 |-> CharRank(tag2[i])])

RECURSIVE sorted(_)
\* sorted(tags) of a list of str.
sorted(tags) ==
    IF tags = <<>> THEN <<>>
    ELSE LET i == CHOOSE k \in DOMAIN tags :
                      \A j \in DOMAIN tags : ~TagLess(tags[j], tags[k])
         IN  <<tags[i]>>
                \o sorted(SubSeq(tags, 1, i - 1)
                             \o SubSeq(tags, i + 1, Len(tags)))

\* normalize_tags: ok = FALSE stands for the HTTPException(400), whose
\* detail lists sorted(bad_tags).
normalize_tags(tags) ==
    LET bad_tags == SelectSeq(tags, LAMBDA tag : ~VALID_TAG_RE(tag))
    IN  IF bad_tags # <<>>
        THEN [ok |-> FALSE, bad_tags |-> sorted(bad_tags), tags |-> <<>>]
        ELSE [ok |-> TRUE, bad_tags |-> <<>>,
              tags |-> [i \in 1..Len(tags) |-> TagLower(tags[i])]]

\* ---------------------------------------------------------------------
\* Tables
\* ---------------------------------------------------------------------
MessageColumns ==
    {"id", "site_id", "message_text", "level", "tags", "urls", "time_lost",
     "date_begin", "user_id", "user_agent", "is_human", "is_valid",
     "date_added", "date_invalidated", "parent_id", "systems", "subsystems",
     "cscs", "date_end", "category", "time_lost_type", "jira_fields_id"}

JiraFieldsColumns ==
    {"id", "components", "primary_software_components",
     "primary_hardware_components", "components_json", "message_id"}

JIRA_FIELDS ==
    {"components", "primary_software_components",
     "primary_hardware_components", "components_json"}

\* Fields of the public Message model.
MessageModelFields == (MessageColumns \ {"jira_fields_id"}) \cup JIRA_FIELDS

\* sa.Computed("date_invalidated is null")
Computed(date_invalidated) == date_invalidated = NULL

\* default=uuid.uuid4: a primary key that is not in the set of used keys.
uuid4(used) == CHOOSE i \in 1..(Cardinality(used) + 1) : i \notin used

\* INSERT INTO message ... VALUES (**values) RETURNING *: columns not named
\* are NULL, id takes its default, is_valid is generated.
MessageRow(id, values) ==
    [c \in MessageColumns |->
        IF c = "id" THEN id
        ELSE IF c = "is_valid"
             THEN Computed(IF "date_invalidated" \in DOMAIN values
                           THEN values["date_invalidated"] ELSE NULL)
        ELSE IF c \in DOMAIN values THEN values[c]
        ELSE NULL]

JiraFieldsRow(id, values) ==
    [c \in JiraFieldsColumns |->
        IF c = "id" THEN id
        ELSE IF c \in DOMAIN values THEN values[c]
        ELSE NULL]

Insert(table, row) == [i \in (DOMAIN table) \cup {row.id} |->
                          IF i = row.id THEN row ELSE table[i]]

\* The update leaves the parent row as it was.
UpdateDateInvalidated_NoUpdate(table, id, value) == table

\* The generated column keeps the value it had at insert time.
UpdateDateInvalidated_StaleIsValid(table, id, value) ==
    [i \in DOMAIN table |->
        IF i = id
        THEN [table[i] EXCEPT !["date_invalidated"] = value]
        ELSE table[i]]

\* The row is removed instead of being marked invalid.
UpdateDateInvalidated_HardDelete(table, id, value) ==
    [i \in (DOMAIN table) \ {id} |-> table[i]]

\* UPDATE message SET date_invalidated = value WHERE id = id; the generated
\* column is recomputed by the storage.
UpdateDateInvalidated(table, id, value) ==
    [i \in DOMAIN table |->
        IF i = id
        THEN [table[i] EXCEPT !["date_invalidated"] = value,
                              !["is_valid"] = Computed(value)]
        ELSE table[i]]

\* The second argument always wins (no coalesce).
coalesce_Overwrite(a, b) == b

\* sa.func.coalesce(a, b): the first non-null value.
coalesce(a, b) == IF a # NULL THEN a ELSE b

\* The jira_fields rows joined to a message row: the two tables are linked
\* by jira_fields.message_id (add_message) or message.jira_fields_id
\* (edit_message, create_test_database).
JoinedJiraFields(m, jtable) ==
    {i \in DOMAIN jtable :
        \/ jtable[i]["message_id"] = Some(m["id"])
        \/ m["jira_fields_id"] = Some(i)}

\* Message.from_orm(row) of message LEFT OUTER JOIN jira_fields.
MessageFromOuterJoin(m, jtable) ==
    LET js == JoinedJiraFields(m, jtable)
    IN  [f \in MessageModelFields |->
            IF f \in JIRA_FIELDS
            THEN IF js = {} THEN NULL
                 ELSE jtable[CHOOSE i \in js : TRUE][f]
            ELSE m[f]]

\* ---------------------------------------------------------------------
\* Responses
\* ---------------------------------------------------------------------
Response(op, status, id, args, tai, body) ==
    [op |-> op, status |-> status, id |-> id, args |-> args, tai |-> tai,
     body |-> body]

NoResponse == Response("none", 0, 0, NULL, 0, NULL)

\* ---------------------------------------------------------------------
\* Request bodies
\* ---------------------------------------------------------------------
AddParams ==
    {"message_text", "level", "category", "time_lost_type", "tags",
     "systems", "subsystems", "cscs", "components",
     "primary_software_components", "primary_hardware_components",
     "components_json", "urls", "time_lost", "date_begin", "date_end",
     "user_id", "user_agent", "is_human"}

\* Only tags has a default; every other optional parameter defaults to
\* None.
AddDefault_NoneButTags(name) == IF name = "tags" THEN Some(<<>>) ELSE NULL

\* fastapi.Body defaults of add_message: [] for tags and urls, a zero
\* timedelta for time_lost, None for the other optional parameters.
AddDefault(name) ==
    CASE name \in {"tags", "urls"} -> Some(<<>>)
      [] name = "time_lost" -> Some(0)
      [] OTHER -> NULL

AddArgs(body) == [name \in AddParams |->
                    IF name \in DOMAIN body THEN Some(body[name])
                    ELSE AddDefault(name)]

\* The names edit_message copies into request_data when not None.
EditNames ==
    {"message_text", "level", "tags", "systems", "subsystems", "cscs",
     "components", "primary_software_components",
     "primary_hardware_components", "urls", "time_lost", "date_begin",
     "site_id", "user_id", "user_agent", "is_human"}

\* Every fastapi.Body default of edit_message is None.
EditArgs(body) == [name \in EditNames |->
                     IF name \in DOMAIN body THEN Some(body[name])
                     ELSE NULL]

tag_ab == <<"a", "b">>
tag_Ab == <<"A", "b">>
tag_B_1 == <<"B", "_", "1">>
tag_bad_short == <<"a">>
tag_bad_digit == <<"1", "a">>

RequiredAddBody ==
    [message_text |-> "A sample message", level |-> 10,
     user_id |-> "test_add_message", user_agent |-> "pytest",
     is_human |-> FALSE]

FullAddBody ==
    DictUpdate(RequiredAddBody,
        [tags |-> <<tag_Ab, tag_B_1>>,
         urls |-> <<"DM-1", "DM-3">>,
         time_lost |-> 1234,
         date_begin |-> <<16, "naive">>,
         date_end |-> <<17, "naive">>,
         systems |-> <<"system1">>,
         subsystems |-> <<>>,
         cscs |-> <<"ATDome", "ESS">>,
         components |-> <<"component1">>,
         primary_software_components |-> <<"psc1">>,
         primary_hardware_components |-> <<>>,
         components_json |-> [systems |-> <<"AuxTel">>,
                              subsystems |-> <<"Dome">>],
         category |-> "test",
         time_lost_type |-> "fault"])

AddBodies ==
    { RequiredAddBody,
      FullAddBody,
      DictUpdate(RequiredAddBody, [tags |-> <<tag_ab, tag_bad_short>>]),
      DictUpdate(FullAddBody, [date_end |-> <<17, "UTC">>]) }

FullEditBody ==
    [site_id |-> "NewSite",
     message_text |-> "New message text",
     level |-> 101,
     tags |-> <<tag_B_1, tag_ab>>,
     urls |-> <<"new/url1", "new/url2">>,
     user_id |-> "new user_id",
     user_agent |-> "new user_agent",
     is_human |-> TRUE,
     systems |-> <<"system2">>,
     subsystems |-> <<"subsystem2">>,
     cscs |-> <<"MTMount">>,
     components |-> <<"component2">>,
     primary_software_components |-> <<"psc2">>,
     primary_hardware_components |-> <<"phc2">>,
     time_lost |-> 60,
     date_begin |-> <<20, "naive">>]

EditBodies ==
    { DictFilter(FullEditBody, {}),
      FullEditBody,
      [message_text |-> "New message text"],
      [tags |-> <<tag_Ab>>],
      [site_id |-> "NewSite"],
      [components |-> <<>>],
      [is_human |-> FALSE, level |-> 0, urls |-> <<>>],
      [tags |-> <<tag_bad_digit, tag_ab>>] }

\* ---------------------------------------------------------------------
\* Shared state: the module global _shared_state, the LogMessageDatabase
\* objects that have been constructed, and the outcome of the last call.
\* ---------------------------------------------------------------------
\* LogMessageDatabase objects that may be constructed.
MaxDatabases == 3

\* Calls of create_shared_state and delete_shared_state that may be in
\* flight at the same time.
NumCalls == 2

SITE_ID_LEN == 16

\* os.environ when create_shared_state is called: SITE_ID absent, longer
\* than SITE_ID_LEN or set, and a database configuration that the
\* database accepts or refuses.
Environments ==
    [SITE_ID : {NULL, Some("AAAAAAAAAAAAAAAAA"), Some(SITE_ID)},
     db_config : {"good", "bad"}]

TestEnvironment == [SITE_ID |-> Some(SITE_ID), db_config |-> "good"]

\* SharedState.__init__ raises ValueError: get_env("SITE_ID") finds no
\* value, or the value is longer than SITE_ID_LEN.
SiteIdError(environ) ==
    \/ environ.SITE_ID = NULL
    \/ Len(Val(environ.SITE_ID)) > SITE_ID_LEN

\* LogMessageDatabase.__init__: not closed, start_task created and not yet
\* run.
LogMessageDatabase(environ) ==
    [closed |-> FALSE, start_task |-> "pending", url |-> environ.db_config]

\* SharedState(): the site id and the index of its narrativelog_db among
\* the constructed databases.
SharedState(environ, db) ==
    [site_id |-> Val(environ.SITE_ID), narrativelog_db |-> db]

\* The start task has run: the tables are created, or the connection
\* fails.
start(database) ==
    [database EXCEPT !.start_task =
        IF database.url = "good" THEN "done" ELSE "failed"]

\* close sets no flag: a second close cancels and disposes again.
close_NotIdempotent(database) ==
    [database EXCEPT !.closed = ~database.closed,
                     !.start_task = IF @ = "pending" THEN "cancelled" ELSE @]

\* LogMessageDatabase.close: nothing when already closed; else closed,
\* start_task cancelled (a task that has finished stays as it is).
close(database) ==
    IF database.closed THEN database
    ELSE [database EXCEPT !.closed = TRUE,
                          !.start_task = IF @ = "pending" THEN "cancelled"
                                         ELSE @]

\* The outcome of a call: the exception it raised ("" when it returned)
\* and the value it returned.
Outcome(op, raised, value) == [op |-> op, raised |-> raised, value |-> value]

NoOutcome == Outcome("none", "", NULL)

IdleCall == [pc |-> "idle", state |-> NULL]

\* The service after startup_event: the shared state is created.
Started ==
    /\ databases = <<start(LogMessageDatabase(TestEnvironment))>>
    /\ shared_state = Some(SharedState(TestEnvironment, 1))
    /\ calls = [c \in 1..NumCalls |-> IdleCall]
    /\ last_call = NoOutcome

\* ---------------------------------------------------------------------
\* Initial databases: create_test_database(num_messages = 0 or 1)
\* ---------------------------------------------------------------------
EmptyTable == <<>>

random_message ==
    [site_id |-> Some(SITE_ID),
     message_text |-> Some("random text"),
     level |-> Some(20),
     tags |-> Some(<<tag_ab>>),
     urls |-> Some(<<"DM-5">>),
     time_lost |-> Some(0),
     date_begin |-> Some(<<3, "naive">>),
     user_id |-> Some("random user"),
     user_agent |-> Some("random agent"),
     is_human |-> Some(TRUE),
     date_added |-> Some(0),
     date_invalidated |-> NULL,
     parent_id |-> NULL,
     systems |-> Some(<<"system0">>),
     subsystems |-> Some(<<>>),
     cscs |-> Some(<<"ESS">>),
     date_end |-> NULL]

random_jira_fields ==
    [components |-> Some(<<"component0">>),
     primary_software_components |-> Some(<<>>),
     primary_hardware_components |-> Some(<<"phc0">>)]

create_test_database(num_messages) ==
    IF num_messages = 0
    THEN [messages |-> EmptyTable, jira_fields |-> EmptyTable]
    ELSE LET j == JiraFieldsRow(uuid4({}), random_jira_fields)
             m == MessageRow(uuid4({}),
                     DictUpdate(random_message,
                                [jira_fields_id |-> Some(j["id"])]))
         IN  [messages |-> Insert(EmptyTable, m),
              jira_fields |-> Insert(EmptyTable, j)]

\* A request in flight: its position (pc), its arguments, the rows it has
\* read, the row locks its transaction holds, the transactions whose row
\* lock it has waited for, and the writes its transaction has not yet
\* committed.
Txns == 1..NumTxns

IdleTxn ==
    [pc |-> "idle", op |-> "none", id |-> 0, args |-> NULL, tai |-> 0,
     parent |-> NULL, locks |-> {}, waited |-> {}, ins_message |-> NULL,
     ins_jira |-> NULL, upd |-> NULL, status |-> 0, body |-> NULL]

Init ==
    /\ \E num_messages \in {0, 1} :
          LET db == create_test_database(num_messages)
          IN  /\ messages = db.messages
              /\ jira_fields = db.jira_fields
    /\ now = 1
    /\ resp = NoResponse
    /\ txn = [t \in Txns |-> IdleTxn]
    /\ Started

\* Ids a client may name: every stored id and one that no row has.
RequestIds == 1..(Cardinality(DOMAIN messages) + 1)

\* ---------------------------------------------------------------------
\* POST /messages
\* ---------------------------------------------------------------------
\* date_arg is not None and date_arg.tzinfo is not None
HasTimeZone(date_arg) == date_arg # NULL /\ Val(date_arg)[2] # "naive"

add_message(body) ==
    LET args == AddArgs(body)
        curr_tai == now
        norm == normalize_tags(Val(args["tags"]))
        message_values ==
            [site_id |-> Some(SITE_ID),
             message_text |-> args["message_text"],
             level |-> args["level"],
             tags |-> Some(norm.tags),
             urls |-> args["urls"],
             time_lost |-> args["time_lost"],
             date_begin |-> args["date_begin"],
             date_end |-> args["date_end"],
             user_id |-> args["user_id"],
             user_agent |-> args["user_agent"],
             is_human |-> args["is_human"],
             date_added |-> Some(curr_tai),
             systems |-> args["systems"],
             subsystems |-> args["subsystems"],
             cscs |-> args["cscs"],
             category |-> args["category"],
             time_lost_type |-> args["time_lost_type"]]
        row_message == MessageRow(uuid4(DOMAIN messages), message_values)
        new_messages == Insert(messages, row_message)
        row_jira_fields ==
            JiraFieldsRow(uuid4(DOMAIN jira_fields),
                DictUpdate(DictFilter(args, JIRA_FIELDS),
                           [message_id |-> Some(row_message["id"])]))
        new_jira_fields ==
            IF \E f \in JIRA_FIELDS : args[f] # NULL
            THEN Insert(jira_fields, row_jira_fields)
            ELSE jira_fields
    IN  /\ now < MaxTime
        /\ now' = now + 1
        /\ IF HasTimeZone(args["date_begin"]) \/ HasTimeZone(args["date_end"])
              \/ ~norm.ok
           THEN /\ resp' = Response("add", HTTP_BAD_REQUEST, 0, Some(body),
                                    curr_tai, NULL)
                /\ UNCHANGED <<messages, jira_fields>>
           ELSE /\ messages' = new_messages
                /\ jira_fields' = new_jira_fields
                /\ resp' = Response("add", HTTP_OK, row_message["id"],
                               Some(body), curr_tai,
                               Some(MessageFromOuterJoin(row_message,
                                                         new_jira_fields)))

\* ---------------------------------------------------------------------
\* DELETE /messages/{id}
\* ---------------------------------------------------------------------
delete_message(id) ==
    LET current_tai == now
        rowcount == IF id \in DOMAIN messages THEN 1 ELSE 0
    IN  /\ now < MaxTime
        /\ now' = now + 1
        /\ messages' =
              IF id \in DOMAIN messages
              THEN UpdateDateInvalidated(messages, id,
                       coalesce(messages[id]["date_invalidated"],
                                Some(current_tai)))
              ELSE messages
        /\ resp' = Response("delete",
                       IF rowcount = 0 THEN HTTP_NOT_FOUND
                       ELSE HTTP_NO_CONTENT,
                       id, NULL, current_tai, NULL)
        /\ UNCHANGED jira_fields

\* ---------------------------------------------------------------------
\* PATCH /messages/{id}
\* ---------------------------------------------------------------------
jira_update_params ==
    {"components", "primary_software_components",
     "primary_hardware_components"}

\* The loop copies every argument, None included.
EditRequestData_CopiesNone(id, args, tags) ==
    LET named == [name \in EditNames |->
                     IF name = "tags" /\ args[name] # NULL THEN tags
                     ELSE args[name]]
    IN  DictUpdate([id |-> id, site_id |-> args["site_id"]], named)

\* request_data = dict(id=id, site_id=site_id) followed by the loop that
\* copies every argument that is not None; tags are the normalized tags.
EditRequestData(id, args, tags) ==
    LET named == [name \in {n \in EditNames : args[n] # NULL} |->
                     IF name = "tags" THEN tags ELSE args[name]]
    IN  DictUpdate([id |-> id, site_id |-> args["site_id"]], named)

\* The jira_fields row the edit copies:
\* jira_fields.c.id == parent_message_row.jira_fields_id, fetchone().
ParentJiraFields(parent_message_row, jtable) ==
    {i \in DOMAIN jtable : parent_message_row["jira_fields_id"] = Some(i)}

EditNewJiraFieldsData(parent_jira_fields_row, request_data) ==
    DictDel(DictUpdate(parent_jira_fields_row,
                       DictFilter(request_data, jira_update_params)),
            {"id"})

\* parent_id is the id that follows the parent's.
EditNewMessageData_ParentOffByOne(parent_row, request_data, current_tai, parent_id, jira_id) ==
    LET message_update_params == (DOMAIN request_data) \ jira_update_params
        copied == DictDel(DictUpdate(parent_row,
                              DictFilter(request_data,
                                         message_update_params)),
                          {"id", "is_valid", "date_invalidated"})
    IN  DictUpdate(copied,
                   [site_id |-> Some(SITE_ID),
                    date_added |-> Some(current_tai),
                    parent_id |-> Some(parent_id + 1),
                    jira_fields_id |-> Some(jira_id)])

\* parent_id is left as copied from the parent row.
EditNewMessageData_NoParentLink(parent_row, request_data, current_tai, parent_id, jira_id) ==
    LET message_update_params == (DOMAIN request_data) \ jira_update_params
        copied == DictDel(DictUpdate(parent_row,
                              DictFilter(request_data,
                                         message_update_params)),
                          {"id", "is_valid", "date_invalidated"})
    IN  DictUpdate(copied,
                   [site_id |-> Some(SITE_ID),
                    date_added |-> Some(current_tai),
                    jira_fields_id |-> Some(jira_id)])

EditNewMessageData(parent_row, request_data, current_tai, parent_id, jira_id) ==
    LET message_update_params == (DOMAIN request_data) \ jira_update_params
        copied == DictDel(DictUpdate(parent_row,
                              DictFilter(request_data,
                                         message_update_params)),
                          {"id", "is_valid", "date_invalidated"})
    IN  DictUpdate(copied,
                   [site_id |-> Some(SITE_ID),
                    date_added |-> Some(current_tai),
                    parent_id |-> Some(parent_id),
                    jira_fields_id |-> Some(jira_id)])

\* The parent is marked invalid before the failure and the mark is kept.
RolledBack_ParentInvalidated(mtable, jtable, id, tai) ==
    [messages |-> UpdateDateInvalidated(mtable, id, Some(tai)),
     jira_fields |-> jtable]

\* async with engine.begin() as connection: an exception that leaves the
\* block rolls the transaction back; the tables are as they were when the
\* transaction began.
RolledBack(mtable, jtable, id, tai) ==
    [messages |-> mtable, jira_fields |-> jtable]

edit_message(id, body) ==
    LET args == EditArgs(body)
        norm == IF args["tags"] # NULL
                THEN normalize_tags(Val(args["tags"]))
                ELSE [ok |-> TRUE, bad_tags |-> <<>>, tags |-> <<>>]
        request_data == EditRequestData(id, args, Some(norm.tags))
        current_tai == now
        parent_jira == ParentJiraFields(messages[id], jira_fields)
        row_jira_fields ==
            JiraFieldsRow(uuid4(DOMAIN jira_fields),
                EditNewJiraFieldsData(
                    jira_fields[CHOOSE i \in parent_jira : TRUE],
                    request_data))
        new_jira_fields == Insert(jira_fields, row_jira_fields)
        row_message ==
            MessageRow(uuid4(DOMAIN messages),
                EditNewMessageData(messages[id], request_data, current_tai,
                                   id, row_jira_fields["id"]))
        new_messages ==
            UpdateDateInvalidated(Insert(messages, row_message), id,
                                  Some(current_tai))
    IN  /\ now < MaxTime
        /\ now' = now + 1
        /\ IF ~norm.ok
           THEN /\ resp' = Response("edit", HTTP_BAD_REQUEST, id, Some(args),
                                    current_tai, NULL)
                /\ UNCHANGED <<messages, jira_fields>>
           ELSE IF id \notin DOMAIN messages
           THEN /\ resp' = Response("edit", HTTP_NOT_FOUND, id, Some(args),
                                    current_tai, NULL)
                /\ UNCHANGED <<messages, jira_fields>>
           ELSE IF parent_jira = {}
           THEN \* parent_jira_fields_row is None: None._asdict() raises
                \* AttributeError; the transaction rolls back.
                LET db == RolledBack(messages, jira_fields, id, current_tai)
                IN  /\ resp' = Response("edit", HTTP_INTERNAL_SERVER_ERROR,
                                        id, Some(args), current_tai, NULL)
                    /\ messages' = db.messages
                    /\ jira_fields' = db.jira_fields
           ELSE /\ messages' = new_messages
                /\ jira_fields' = new_jira_fields
                /\ resp' = Response("edit", HTTP_OK, id, Some(args),
                               current_tai,
                               Some(MessageFromOuterJoin(
                                        new_messages[row_message["id"]],
                                        new_jira_fields)))

\* ---------------------------------------------------------------------
\* GET /messages/{id}
\* ---------------------------------------------------------------------
\* Message.model_validate(row) of message JOIN jira_fields (inner join): a
\* message with no joined jira_fields row yields no row.
MessageFromInnerJoin(m, jtable) ==
    IF JoinedJiraFields(m, jtable) = {} THEN NULL
    ELSE Some(MessageFromOuterJoin(m, jtable))

get_message(id) ==
    LET row == IF id \in DOMAIN messages
               THEN MessageFromInnerJoin(messages[id], jira_fields)
               ELSE NULL
    IN  /\ resp' = IF row = NULL
                   THEN Response("get", HTTP_NOT_FOUND, id, NULL, 0, NULL)
                   ELSE Response("get", HTTP_OK, id, NULL, 0, row)
        /\ UNCHANGED <<messages, jira_fields, now>>

\* ---------------------------------------------------------------------
\* GET /messages
\* ---------------------------------------------------------------------
\* The value of a WHERE condition: SQL's three-valued logic.  A comparison
\* or an array operator applied to a NULL column is unknown; WHERE keeps
\* the rows whose condition is true.
SqlTrue == "true"
SqlFalse == "false"
SqlUnknown == "unknown"

SqlBool(b) == IF b THEN SqlTrue ELSE SqlFalse

\* sa.sql.not_
SqlNot(c) ==
    CASE c = SqlTrue -> SqlFalse
      [] c = SqlFalse -> SqlTrue
      [] OTHER -> SqlUnknown

\* The conditions are joined by OR.
SqlAnd_AnyTrue(cs) ==
    IF cs = {} \/ SqlTrue \in cs THEN SqlTrue
    ELSE IF SqlUnknown \in cs THEN SqlUnknown
    ELSE SqlFalse

\* sa.sql.and_(*conditions); and_ of no conditions is and_(True).
SqlAnd(cs) ==
    IF SqlFalse \in cs THEN SqlFalse
    ELSE IF SqlUnknown \in cs THEN SqlUnknown
    ELSE SqlTrue

\* sa.sql.or_(*conditions) of at least one condition.
SqlOr(cs) ==
    IF SqlTrue \in cs THEN SqlTrue
    ELSE IF SqlUnknown \in cs THEN SqlUnknown
    ELSE SqlFalse

SeqRange(q) == {q[i] : i \in DOMAIN q}

\* The array column holds every element of the list.
ArrayOverlap_ContainsAll(column, value) ==
    IF column = NULL THEN SqlUnknown
    ELSE SqlBool(SeqRange(value) \subseteq SeqRange(Val(column)))

\* column.op("&&")(value): the array column and the list share an element.
ArrayOverlap(column, value) ==
    IF column = NULL THEN SqlUnknown
    ELSE SqlBool(SeqRange(Val(column)) \cap SeqRange(value) # {})

\* column.in_(value)
ColumnIn(column, value) ==
    IF column = NULL THEN SqlUnknown
    ELSE SqlBool(Val(column) \in SeqRange(value))

\* The position of a column value in the order of its type: a datetime
\* <<t, tzinfo>> of date_begin or date_end is ordered by t, a number or a
\* timestamp by itself.
Ordinal(name, v) == IF name \in {"date_begin", "date_end"} THEN v[1] ELSE v

\* column > value: the bound itself is left out.
ColumnGE_Exclusive(name, column, value) ==
    IF column = NULL THEN SqlUnknown
    ELSE SqlBool(Ordinal(name, Val(column)) > Ordinal(name, value))

\* column >= value
ColumnGE(name, column, value) ==
    IF column = NULL THEN SqlUnknown
    ELSE SqlBool(Ordinal(name, Val(column)) >= Ordinal(name, value))

\* column < value
ColumnLT(name, column, value) ==
    IF column = NULL THEN SqlUnknown
    ELSE SqlBool(Ordinal(name, Val(column)) < Ordinal(name, value))

\* column.contains(value) on a text column: LIKE '%value%', for the texts
\* and fragments that requests carry.
Fragments ==
    {<<"A sample message", "message">>, <<"New message text", "message">>,
     <<"random text", "text">>, <<"New message text", "text">>}

ColumnContainsText(column, value) ==
    IF column = NULL THEN SqlUnknown
    ELSE SqlBool(Val(column) = value \/ <<Val(column), value>> \in Fragments)

\* json.loads for the texts that requests carry.  A JSON object is a
\* function from its keys to its values; a value is a list (is_list, with
\* its items) or something else.  A text that is no object gives a Python
\* list (of strings here), str (its characters), int or None.
JsonList(items) == [is_list |-> TRUE, items |-> items]
JsonOther == [is_list |-> FALSE, items |-> <<>>]
JsonObject(members) == [ok |-> TRUE, type |-> "dict", value |-> members]
JsonValue(type, items) == [ok |-> TRUE, type |-> type, value |-> items]
JSONDecodeError == [ok |-> FALSE, type |-> "", value |-> <<>>]

json_loads(text) ==
    CASE text = "{}" -> JsonObject(DictFilter([k |-> JsonOther], {}))
      [] text = "{\"systems\": [\"AuxTel\"]}" ->
            JsonObject([systems |-> JsonList(<<"AuxTel">>)])
      [] text = "{\"systems\": [\"Simonyi\", \"AuxTel\"]}" ->
            JsonObject([systems |-> JsonList(<<"Simonyi", "AuxTel">>)])
      [] text = "{\"systems\": [\"AuxTel\", \"Simonyi\"]}" ->
            JsonObject([systems |-> JsonList(<<"AuxTel", "Simonyi">>)])
      [] text = "{\"systems\": [\"Simonyi\"], \"subsystems\": [\"Dome\"]}" ->
            JsonObject([systems |-> JsonList(<<"Simonyi">>),
                        subsystems |-> JsonList(<<"Dome">>)])
      [] text = "{\"subsystems\": [\"AuxTel\"]}" ->
            JsonObject([subsystems |-> JsonList(<<"AuxTel">>)])
      [] text = "{\"subsystems\": []}" ->
            JsonObject([subsystems |-> JsonList(<<>>)])
      [] text = "{\"systems\": \"AuxTel\", \"subsystems\": [\"Dome\"]}" ->
            JsonObject([systems |-> JsonOther,
                        subsystems |-> JsonList(<<"Dome">>)])
      [] text = "{\"systems\": \"AuxTel\"}" ->
            JsonObject([systems |-> JsonOther])
      [] text = "[\"AuxTel\"]" -> JsonValue("list", <<"AuxTel">>)
      [] text = "[]" -> JsonValue("list", <<>>)
      [] text = "\"AuxTel\"" ->
            JsonValue("str", <<"A", "u", "x", "T", "e", "l">>)
      [] text = "5" -> JsonValue("int", <<>>)
      [] text = "null" -> JsonValue("NoneType", <<>>)
      [] OTHER -> JSONDecodeError

\* `for key in parsed_value: value = parsed_value[key]` raises TypeError:
\* an int and None are not iterable, and an item of a list of strings or a
\* character of a str is no index of it.
KeyLoopRaises(parsed_value) ==
    CASE parsed_value.type = "dict" -> FALSE
      [] parsed_value.type \in {"int", "NoneType"} -> TRUE
      [] parsed_value.type \in {"list", "str"} -> parsed_value.value # <<>>

\* The element is in the list under some key of the column.
JsonContains_AnyKey(column, key, element) ==
    IF column = NULL THEN SqlUnknown
    ELSE SqlBool(\E k \in DOMAIN Val(column) :
                    element \in SeqRange(Val(column)[k]))

\* column.contains({key: [element]}) on components_json: the column has
\* the key and the list under it holds the element.
JsonContains(column, key, element) ==
    IF column = NULL THEN SqlUnknown
    ELSE SqlBool(/\ key \in DOMAIN Val(column)
                 /\ element \in SeqRange(Val(column)[key]))

\* individual_conditions: one condition for each element of each key
\* whose value is a non-empty list.
IndividualConditions(parsed_value, column) ==
    {JsonContains(column, pair[1], pair[2]) :
        pair \in UNION {{<<key, element>> :
                           element \in SeqRange(parsed_value[key].items)} :
                        key \in {k \in DOMAIN parsed_value :
                                    /\ parsed_value[k].is_list
                                    /\ parsed_value[k].items # <<>>}}}

\* The selection arguments of find_messages, each with the branch of the
\* loop over select_arg_names that handles it and the column it names.
SelectArgs ==
    {<<"site_ids", "in", "site_id">>,
     <<"message_text", "contains", "message_text">>,
     <<"min_level", "min", "level">>, <<"max_level", "max", "level">>,
     <<"user_ids", "in", "user_id">>,
     <<"user_agents", "in", "user_agent">>,
     <<"systems", "array", "systems">>,
     <<"exclude_systems", "exclude", "systems">>,
     <<"subsystems", "array", "subsystems">>,
     <<"exclude_subsystems", "exclude", "subsystems">>,
     <<"cscs", "array", "cscs">>,
     <<"exclude_cscs", "exclude", "cscs">>,
     <<"components", "array", "components">>,
     <<"exclude_components", "exclude", "components">>,
     <<"primary_software_components", "array",
       "primary_software_components">>,
     <<"exclude_primary_software_components", "exclude",
       "primary_software_components">>,
     <<"primary_hardware_components", "array",
       "primary_hardware_components">>,
     <<"exclude_primary_hardware_components", "exclude",
       "primary_hardware_components">>,
     <<"components_path", "path", "components_json">>,
     <<"exclude_components_path", "exclude_path", "components_json">>,
     <<"tags", "array", "tags">>,
     <<"exclude_tags", "exclude", "tags">>,
     <<"urls", "array", "urls">>,
     <<"min_time_lost", "min", "time_lost">>,
     <<"max_time_lost", "max", "time_lost">>,
     <<"has_date_begin", "has", "date_begin">>,
     <<"min_date_begin", "min", "date_begin">>,
     <<"max_date_begin", "max", "date_begin">>,
     <<"has_date_end", "has", "date_end">>,
     <<"min_date_end", "min", "date_end">>,
     <<"max_date_end", "max", "date_end">>,
     <<"is_human", "tristate", "is_human">>,
     <<"is_valid", "tristate", "is_valid">>,
     <<"min_date_added", "min", "date_added">>,
     <<"max_date_added", "max", "date_added">>,
     <<"has_date_invalidated", "has", "date_invalidated">>,
     <<"min_date_invalidated", "min", "date_invalidated">>,
     <<"max_date_invalidated", "max", "date_invalidated">>,
     <<"has_parent_id", "has", "parent_id">>}

select_arg_names == {a[1] : a \in SelectArgs}

ArgBranch(key) == (CHOOSE a \in SelectArgs : a[1] = key)[2]

ArgColumn(key) == (CHOOSE a \in SelectArgs : a[1] = key)[3]

\* Every query parameter of find_messages.
FindParams ==
    select_arg_names \cup
        {"categories", "exclude_categories", "time_lost_types",
         "exclude_time_lost_types", "order_by", "offset", "limit"}

\* is_valid defaults to TriState.either.
FindDefault_ValidEither(name) ==
    CASE name \in {"is_human", "is_valid"} -> Some("either")
      [] name = "offset" -> Some(0)
      [] name = "limit" -> Some(50)
      [] OTHER -> NULL

\* fastapi.Query defaults: is_human either, is_valid true, offset 0,
\* limit 50, None for every other parameter.
FindDefault(name) ==
    CASE name = "is_human" -> Some("either")
      [] name = "is_valid" -> Some("true")
      [] name = "offset" -> Some(0)
      [] name = "limit" -> Some(50)
      [] OTHER -> NULL

FindArgs(query) ==
    [name \in FindParams |->
        IF name \in DOMAIN query THEN Some(query[name])
        ELSE FindDefault(name)]

\* or_ of no conditions is a condition that no row satisfies.
PathCondition_EmptyOrIsFalse(individual_conditions) ==
    {SqlOr(individual_conditions)}

\* conditions.append(sa.sql.or_(*individual_conditions)): or_ of no
\* conditions renders as nothing and and_ leaves it out.
PathCondition(individual_conditions) ==
    IF individual_conditions = {} THEN {}
    ELSE {SqlOr(individual_conditions)}

\* column == logical_value for is_human and is_valid.
TriStateCondition(name, column, value) ==
    LET logical_value == (value = "true")
    IN  IF name = "is_valid" THEN SqlBool(column = logical_value)
        ELSE IF column = NULL THEN SqlUnknown
        ELSE SqlBool(Val(column) = logical_value)

\* The conditions one pass of the loop over select_arg_names appends for
\* an argument that is not None, evaluated on a row of
\* message LEFT OUTER JOIN jira_fields.
Condition(key, value, row) ==
    LET branch == ArgBranch(key)
        name == ArgColumn(key)
        column == row[name]
    IN  CASE branch = "min" -> {ColumnGE(name, column, value)}
          [] branch = "max" -> {ColumnLT(name, column, value)}
          [] branch = "has" ->
                {SqlBool(IF value THEN column # NULL ELSE column = NULL)}
          [] branch = "array" -> {ArrayOverlap(column, value)}
          [] branch = "exclude" -> {SqlNot(ArrayOverlap(column, value))}
          [] branch = "path" ->
                PathCondition(
                    IndividualConditions(json_loads(value).value, column))
          [] branch = "exclude_path" ->
                LET ics == IndividualConditions(json_loads(value).value,
                                                column)
                IN  IF ics = {} THEN {} ELSE {SqlNot(SqlOr(ics))}
          [] branch = "in" -> {ColumnIn(column, value)}
          [] branch = "contains" -> {ColumnContainsText(column, value)}
          [] branch = "tristate" ->
                IF value = "either" THEN {}
                ELSE {TriStateCondition(name, column, value)}

\* full_conditions evaluated on a row.
FullConditions(args, row) ==
    SqlAnd(UNION {Condition(key, Val(args[key]), row) :
                     key \in {k \in select_arg_names : args[k] # NULL}})

\* MESSAGE_ORDER_BY_VALUES: every field of Message, and every field with a
\* leading "-".
MESSAGE_ORDER_BY_VALUES ==
    MessageModelFields \cup {"-" \o field : field \in MessageModelFields}

MESSAGE_ORDER_BY_SET == MESSAGE_ORDER_BY_VALUES

\* bad_fields = set(order_by) - MESSAGE_ORDER_BY_SET
bad_fields(order_by) ==
    IF order_by = NULL THEN {}
    ELSE SeqRange(Val(order_by)) \ MESSAGE_ORDER_BY_SET

\* The list is left as it was given: id is not appended.
OrderByItems_NoIdAppended(order_by) ==
    IF order_by = NULL THEN <<"id">> ELSE Val(order_by)

\* order_by as the loop over its items reads it: ["id"] when None, with
\* "id" appended when it has neither "id" nor "-id".
OrderByItems(order_by) ==
    IF order_by = NULL THEN <<"id">>
    ELSE IF SeqRange(Val(order_by)) \cap {"id", "-id"} = {}
    THEN Append(Val(order_by), "id")
    ELSE Val(order_by)

\* item.startswith("-"), for an item of MESSAGE_ORDER_BY_SET.
IsDescending(item) == \E field \in MessageModelFields : item = "-" \o field

\* column_name: item[1:] of a descending item, else the item.
ColumnName(item) ==
    IF IsDescending(item)
    THEN CHOOSE field \in MessageModelFields : item = "-" \o field
    ELSE item

\* message_table.columns[column_name] raises KeyError: the Message field
\* is a column of jira_fields, not of message.
NoSuchColumn(items) ==
    \E i \in DOMAIN items : ColumnName(items[i]) \notin MessageColumns

\* The texts that requests and the test database carry, in the order of
\* their bytes.
Collation ==
    <<"A sample message", "ATDome", "DM-1", "DM-3", "DM-5", "ESS",
      "MTMount", "New message text", "NewSite", "fault", "new user_agent",
      "new user_id", "new/url1", "new/url2", "pytest", "random agent",
      "random text", "random user", "subsystem2", "system0", "system1",
      "system2", "test", "test_add_message">>

TextRank(text) == CHOOSE i \in DOMAIN Collation : Collation[i] = text

RECURSIVE Flatten(_)
\* The sequences of a sequence, one after the other.
Flatten(seqs) ==
    IF seqs = <<>> THEN <<>> ELSE Head(seqs) \o Flatten(Tail(seqs))

\* The value of a column of message as a sequence of integers that
\* compares, item by item, as the database compares the values of the
\* column's type: numbers, timestamps, booleans (false first), texts,
\* arrays of texts (item by item, the shorter first).
SortKey(name, v) ==
    CASE name \in {"id", "parent_id", "level", "time_lost", "date_added",
                   "date_invalidated", "jira_fields_id"} -> <<v>>
      [] name \in {"date_begin", "date_end"} -> <<v[1]>>
      [] name \in {"is_human", "is_valid"} -> <<IF v THEN 1 ELSE 0>>
      [] name = "tags" ->
            Flatten([i \in DOMAIN v |->
                        [j \in DOMAIN v[i] |-> CharRank(v[i][j])] \o <<0>>])
      [] name \in {"urls", "systems", "subsystems", "cscs"} ->
            [i \in DOMAIN v |-> TextRank(v[i])]
      [] OTHER -> <<TextRank(v)>>

\* The value of a column of row m, raw for the columns that are never
\* null.
ColumnValue(m, name) ==
    IF name \in {"id", "is_valid"} THEN Some(m[name]) ELSE m[name]

\* ORDER BY column ASC puts x before y: nulls come last.
AscBefore(name, x, y) ==
    IF x = NULL THEN FALSE
    ELSE IF y = NULL THEN TRUE
    ELSE KeyLess(SortKey(name, Val(x)), SortKey(name, Val(y)))

\* ORDER BY item puts row a before row b: sa.sql.desc(column) for an item
\* with a leading "-", sa.sql.asc(column) otherwise.
ItemBefore(item, a, b) ==
    LET name == ColumnName(item)
        x == ColumnValue(a, name)
        y == ColumnValue(b, name)
    IN  IF IsDescending(item) THEN AscBefore(name, y, x)
        ELSE AscBefore(name, x, y)

\* .order_by(*order_by_columns) puts row a before row b: the first item
\* that tells them apart does.
RowBefore(items, a, b) ==
    \E i \in DOMAIN items :
        /\ ItemBefore(items[i], a, b)
        /\ \A j \in 1..(i - 1) :
              ~ItemBefore(items[j], a, b) /\ ~ItemBefore(items[j], b, a)

RECURSIVE OrderBy(_, _, _)
\* The ids of rows of the table in the order of the items.
OrderBy(ids, items, mtable) ==
    IF ids = {} THEN <<>>
    ELSE LET first == CHOOSE i \in ids : \A j \in ids \ {i} :
                          ~RowBefore(items, mtable[j], mtable[i])
         IN  <<first>> \o OrderBy(ids \ {first}, items, mtable)

\* .limit(limit).offset(offset)
LimitOffset(rows, limit, offset) ==
    SubSeq(rows, offset + 1,
           IF offset + limit < Len(rows) THEN offset + limit ELSE Len(rows))

\* The ids of the rows the SELECT of find_messages returns, in order.
FindSelect(args, mtable, jtable) ==
    LimitOffset(
        OrderBy({id \in DOMAIN mtable :
                    FullConditions(args,
                        MessageFromOuterJoin(mtable[id], jtable))
                      = SqlTrue},
                OrderByItems(args["order_by"]), mtable),
        Val(args["limit"]), Val(args["offset"]))

\* fastapi.Query(ge=0) of offset and fastapi.Query(gt=1) of limit reject
\* the request before the handler runs.
InvalidQuery(args) == Val(args["offset"]) < 0 \/ Val(args["limit"]) <= 1

\* The status the branches of components_path and exclude_components_path
\* end the request with, 0 when they do not: json.loads raises
\* JSONDecodeError, which the handler turns into 400, or the loop over the
\* keys raises, which nothing catches.
PathFailure(args) ==
    LET status(key) ==
            IF args[key] = NULL THEN 0
            ELSE IF ~json_loads(Val(args[key])).ok THEN HTTP_BAD_REQUEST
            ELSE IF KeyLoopRaises(json_loads(Val(args[key])))
            THEN HTTP_INTERNAL_SERVER_ERROR
            ELSE 0
    IN  IF status("components_path") # 0 THEN status("components_path")
        ELSE status("exclude_components_path")

\* sa.sql.not_(sa.sql.or_(*individual_conditions)) is built from no
\* conditions: NOT applied to an expression that renders as nothing.
NotOfNothing(args) ==
    /\ args["exclude_components_path"] # NULL
    /\ json_loads(Val(args["exclude_components_path"])).ok
    /\ IndividualConditions(
          json_loads(Val(args["exclude_components_path"])).value, NULL) = {}

\* The responses find_messages can give to a query on the tables.
find_messages(query, mtable, jtable) ==
    LET args0 == FindArgs(query)
        norm(name) == IF args0[name] # NULL
                      THEN normalize_tags(Val(args0[name]))
                      ELSE [ok |-> TRUE, bad_tags |-> <<>>, tags |-> <<>>]
        args == [name \in FindParams |->
                    IF name \in {"tags", "exclude_tags"}
                           /\ args0[name] # NULL
                    THEN Some(norm(name).tags)
                    ELSE args0[name]]
        ids == FindSelect(args, mtable, jtable)
        rows == [i \in 1..Len(ids) |->
                    MessageFromOuterJoin(mtable[ids[i]], jtable)]
        found == Response("find", HTTP_OK, 0, Some(query), 0, Some(rows))
        failed(status) == Response("find", status, 0, Some(query), 0, NULL)
    IN  IF InvalidQuery(args0)
        THEN {failed(HTTP_UNPROCESSABLE_ENTITY)}
        ELSE IF bad_fields(args0["order_by"]) # {}
        THEN {failed(HTTP_BAD_REQUEST)}
        ELSE IF NoSuchColumn(OrderByItems(args0["order_by"]))
        THEN {failed(HTTP_INTERNAL_SERVER_ERROR)}
        ELSE IF ~norm("tags").ok \/ ~norm("exclude_tags").ok
        THEN {failed(HTTP_BAD_REQUEST)}
        ELSE IF PathFailure(args) # 0 THEN {failed(PathFailure(args))}
        ELSE IF NotOfNothing(args)
        THEN {found, failed(HTTP_INTERNAL_SERVER_ERROR)}
        ELSE {found}

\* ---------------------------------------------------------------------
\* Requests served one at a time
\* ---------------------------------------------------------------------
Add == (\E body \in AddBodies : add_message(body)) /\ UNCHANGED <<txn, lifecycle>>

Edit == (\E id \in RequestIds : \E body \in EditBodies :
            edit_message(id, body)) /\ UNCHANGED <<txn, lifecycle>>

Delete == (\E id \in RequestIds : delete_message(id)) /\ UNCHANGED <<txn, lifecycle>>

Next == Add \/ Edit \/ Delete

Spec == Init /\ [][Next]_vars

\* ---------------------------------------------------------------------
\* Requests served one at a time, reads included
\* ---------------------------------------------------------------------
QueryAddBodies ==
    { RequiredAddBody,
      FullAddBody,
      DictUpdate(RequiredAddBody,
          [components_json |-> [systems |-> <<"Simonyi", "Other">>]]) }

QueryEditBodies ==
    { DictFilter(FullEditBody, {}),
      [is_human |-> FALSE, level |-> 0, urls |-> <<>>] }

\* Queries of one parameter.
RangeQueries ==
    { [min_level |-> 10], [max_level |-> 10], [min_level |-> 20],
      [max_level |-> 20], [min_time_lost |-> 1234],
      [min_date_begin |-> <<16, "naive">>],
      [max_date_begin |-> <<16, "naive">>],
      [min_date_end |-> <<17, "naive">>],
      [max_date_added |-> 2], [min_date_added |-> 2],
      [min_date_invalidated |-> 2], [max_date_invalidated |-> 3] }

EmptyRangeQueries ==
    { [min_level |-> 10, max_level |-> 10],
      [min_level |-> 20, max_level |-> 10],
      [min_date_added |-> 2, max_date_added |-> 2,
       is_valid |-> "either"] }

TriStateQueries ==
    { [is_valid |-> "true"], [is_valid |-> "false"],
      [is_valid |-> "either"], [is_human |-> "true"],
      [is_human |-> "false"], [is_human |-> "either"] }

ArrayQueries ==
    { [tags |-> <<tag_Ab>>], [tags |-> <<tag_B_1, <<"z", "z">>>>],
      [tags |-> <<tag_bad_digit, tag_ab>>],
      [systems |-> <<"system1", "system0">>], [subsystems |-> <<"Dome">>],
      [cscs |-> <<"ESS">>], [urls |-> <<"DM-5", "DM-1">>],
      [components |-> <<"component0">>],
      [primary_software_components |-> <<"psc1">>],
      [primary_hardware_components |-> <<"phc0">>],
      [systems |-> <<"system0">>, is_valid |-> "either"] }

ExcludeQueries ==
    { [exclude_tags |-> <<tag_Ab>>], [exclude_systems |-> <<"system1">>],
      [exclude_subsystems |-> <<"Dome">>], [exclude_cscs |-> <<"ESS">>],
      [exclude_components |-> <<"component0">>],
      [exclude_primary_software_components |-> <<"psc1">>],
      [exclude_primary_hardware_components |-> <<"phc0">>],
      [exclude_components_path |-> "{\"systems\": [\"AuxTel\"]}"],
      [exclude_systems |-> <<"system0">>, is_valid |-> "either"] }

PathQueries ==
    { [components_path |-> "{}"],
      [components_path |-> "{\"systems\": [\"AuxTel\"]}"],
      [components_path |-> "{\"systems\": [\"Simonyi\", \"AuxTel\"]}"],
      [components_path |-> "{\"systems\": [\"AuxTel\", \"Simonyi\"]}"],
      [components_path
          |-> "{\"systems\": [\"Simonyi\"], \"subsystems\": [\"Dome\"]}"],
      [components_path
          |-> "{\"systems\": \"AuxTel\", \"subsystems\": [\"Dome\"]}"],
      [components_path |-> "{\"systems\": \"AuxTel\"}"],
      [components_path |-> "{\"subsystems\": []}"],
      [components_path |-> "{\"subsystems\": [\"AuxTel\"]}"],
      [components_path |-> "{\"systems\": [\"AuxTel\"]"],
      [exclude_components_path |-> "{}"] }

OtherQueries ==
    { DictFilter([is_valid |-> "true"], {}),
      [has_parent_id |-> TRUE], [has_date_end |-> FALSE],
      [user_ids |-> <<"random user", "new user_id">>],
      [site_ids |-> <<"test">>], [message_text |-> "message"] }

\* Queries of two parameters.
PairQueries ==
    { [min_level |-> 10, systems |-> <<"system1", "system0">>],
      [max_level |-> 20, is_human |-> "false"],
      [tags |-> <<tag_Ab>>, has_parent_id |-> TRUE],
      [exclude_systems |-> <<"system1">>, min_level |-> 10],
      [components_path |-> "{}", min_level |-> 20],
      [components_path |-> "{\"systems\": [\"AuxTel\"]}",
       cscs |-> <<"ESS">>],
      [tags |-> <<tag_bad_digit, tag_ab>>, min_level |-> 10],
      [min_level |-> 10, has_parent_id |-> TRUE, is_valid |-> "either"] }

FindQueries ==
    RangeQueries \cup EmptyRangeQueries \cup TriStateQueries
        \cup ArrayQueries \cup ExcludeQueries \cup PathQueries
        \cup OtherQueries \cup PairQueries

QueryAdd == (\E body \in QueryAddBodies : add_message(body)) /\ UNCHANGED <<txn, lifecycle>>

QueryEdit == (\E id \in RequestIds : \E body \in QueryEditBodies : edit_message(id, body)) /\ UNCHANGED <<txn, lifecycle>>

\* A read changes no table, so a read served after another read answers as
\* it would have in its place: only reads that follow a write, or that are
\* the first request, are explored.
ReadFollowsWrite == resp.op \notin {"get", "find"}

Get ==
    /\ ReadFollowsWrite
    /\ \E id \in RequestIds : get_message(id)
    /\ UNCHANGED <<txn, lifecycle>>

Find ==
    /\ ReadFollowsWrite
    /\ \E query \in FindQueries :
          resp' \in find_messages(query, messages, jira_fields)
    /\ UNCHANGED <<messages, jira_fields, now, txn, lifecycle>>

NextQuery == QueryAdd \/ QueryEdit \/ Delete \/ Get \/ Find

SpecQuery == Init /\ [][NextQuery]_vars

\* ---------------------------------------------------------------------
\* Requests served one at a time, with reads that give the parameters
\* outside select_arg_names: order_by, limit, offset and the category and
\* time lost type lists
\* ---------------------------------------------------------------------
OrderQueries ==
    { [order_by |-> <<"level">>], [order_by |-> <<"-level">>],
      [order_by |-> <<"-id">>], [order_by |-> <<"is_human", "-date_added">>],
      [order_by |-> <<"-date_begin">>], [order_by |-> <<"message_text">>],
      [order_by |-> <<"tags">>], [order_by |-> <<"-parent_id", "level">>],
      [order_by |-> <<"components">>],
      [order_by |-> <<"-components_json">>],
      [order_by |-> <<"not_a_field">>], [order_by |-> <<"+id">>],
      [order_by |-> <<"level", "not_a_field">>],
      [order_by |-> <<"level">>, is_valid |-> "either"] }

PageQueries ==
    { [limit |-> 2], [limit |-> 2, offset |-> 2],
      [order_by |-> <<"level">>, limit |-> 2],
      [order_by |-> <<"level">>, limit |-> 2, offset |-> 2],
      [order_by |-> <<"level">>, limit |-> 2, offset |-> 4],
      [order_by |-> <<"-level">>, limit |-> 3, offset |-> 1],
      [order_by |-> <<"-id">>, limit |-> 2, offset |-> 1],
      [limit |-> 1], [limit |-> 0], [offset |-> 0 - 1] }

CategoryQueries ==
    { [categories |-> <<"test">>], [exclude_categories |-> <<"test">>],
      [time_lost_types |-> <<"fault">>],
      [exclude_time_lost_types |-> <<"fault">>] }

FindPage ==
    /\ ReadFollowsWrite
    /\ \E query \in OrderQueries \cup PageQueries \cup CategoryQueries :
          resp' \in find_messages(query, messages, jira_fields)
    /\ UNCHANGED <<messages, jira_fields, now, txn, lifecycle>>

NextPage == QueryAdd \/ QueryEdit \/ Delete \/ FindPage

SpecPage == Init /\ [][NextPage]_vars

\* ---------------------------------------------------------------------
\* Requests served one at a time, with reads that give components_path
\* or exclude_components_path a text of any JSON type
\* ---------------------------------------------------------------------
JsonTexts ==
    {"{}", "{\"systems\": [\"AuxTel\"]}", "{\"systems\": \"AuxTel\"}",
     "{\"subsystems\": []}", "{\"systems\": [\"AuxTel\"]",
     "[\"AuxTel\"]", "[]", "\"AuxTel\"", "5", "null"}

JsonQueries ==
    {[components_path |-> text] : text \in JsonTexts}
        \cup {[exclude_components_path |-> text] : text \in JsonTexts}
        \cup {[components_path |-> "5",
               exclude_components_path |-> "{\"systems\": [\"AuxTel\"]"],
              [components_path |-> "{\"systems\": [\"AuxTel\"]",
               exclude_components_path |-> "5"]}

FindPath ==
    /\ ReadFollowsWrite
    /\ \E query \in JsonQueries :
          resp' \in find_messages(query, messages, jira_fields)
    /\ UNCHANGED <<messages, jira_fields, now, txn, lifecycle>>

NextPath == QueryAdd \/ QueryEdit \/ Delete \/ FindPath

SpecPath == Init /\ [][NextPath]_vars

\* ---------------------------------------------------------------------
\* normalize_tags called on lists of tags
\* ---------------------------------------------------------------------
MaxTags == 3

tag_newline == <<"a", "b", "\n">>

TagValues ==
    {tag_ab, tag_Ab, tag_B_1, tag_bad_short, tag_bad_digit, tag_newline}

TagLists == UNION {[1..n -> TagValues] : n \in 0..MaxTags}

\* A list of tags is about to be normalized.
InitTags ==
    /\ messages = EmptyTable
    /\ jira_fields = EmptyTable
    /\ now = 1
    /\ txn = [t \in Txns |-> IdleTxn]
    /\ Started
    /\ \E tags \in TagLists :
          resp = Response("tags", 0, 0, Some(tags), 0, NULL)

\* normalize_tags(tags) returns the normalized tags or raises the
\* HTTPException with the sorted bad tags in its detail.
ReturnNormalizedTags(tags) ==
    LET result == normalize_tags(tags)
    IN  resp' = IF result.ok
                THEN Response("normalize_tags", HTTP_OK, 0, Some(tags), 0,
                              Some(result.tags))
                ELSE Response("normalize_tags", HTTP_BAD_REQUEST, 0,
                              Some(tags), 0, Some(result.bad_tags))

NormalizeTags ==
    /\ resp.op = "tags"
    /\ ReturnNormalizedTags(Val(resp.args))
    /\ UNCHANGED <<messages, jira_fields, now, txn, lifecycle>>

\* normalize_tags is called on the list it returned.
NormalizeTagsAgain ==
    /\ resp.op = "normalize_tags"
    /\ resp.status = HTTP_OK
    /\ ReturnNormalizedTags(Val(resp.body))
    /\ UNCHANGED <<messages, jira_fields, now, txn, lifecycle>>

NextTags == NormalizeTags \/ NormalizeTagsAgain

SpecTags == InitTags /\ [][NextTags]_vars

\* ---------------------------------------------------------------------
\* create_shared_state, delete_shared_state, get_shared_state and
\* LogMessageDatabase.close called one at a time
\* ---------------------------------------------------------------------
\* The process before startup_event: no shared state, no database object.
InitState ==
    /\ messages = EmptyTable
    /\ jira_fields = EmptyTable
    /\ now = 1
    /\ resp = NoResponse
    /\ txn = [t \in Txns |-> IdleTxn]
    /\ shared_state = NULL
    /\ databases = <<>>
    /\ calls = [c \in 1..NumCalls |-> IdleCall]
    /\ last_call = NoOutcome

\* _shared_state is assigned as soon as the state is constructed.
Installed_BeforeStart(state, database) == Some(state)

\* _shared_state after 'await state.narrativelog_db.start_task' and the
\* assignment that follows it: the assignment is not reached when the
\* await raises.
Installed(state, database) ==
    IF database.start_task = "done" THEN Some(state) ELSE NULL

create_shared_state(environ) ==
    IF shared_state # NULL
    THEN /\ last_call' = Outcome("create_shared_state", "RuntimeError", NULL)
         /\ UNCHANGED <<shared_state, databases>>
    ELSE IF SiteIdError(environ)
    THEN /\ last_call' = Outcome("create_shared_state", "ValueError", NULL)
         /\ UNCHANGED <<shared_state, databases>>
    ELSE LET database == start(LogMessageDatabase(environ))
             state == SharedState(environ, Len(databases) + 1)
         IN  /\ Len(databases) < MaxDatabases
             /\ databases' = Append(databases, database)
             /\ shared_state' = Installed(state, database)
             /\ last_call' =
                   Outcome("create_shared_state",
                           IF database.start_task = "done" THEN ""
                           ELSE "OSError", NULL)

delete_shared_state ==
    IF shared_state = NULL
    THEN /\ last_call' = Outcome("delete_shared_state", "", NULL)
         /\ UNCHANGED <<shared_state, databases>>
    ELSE LET state == Val(shared_state)
         IN  /\ shared_state' = NULL
             /\ databases' =
                   [databases EXCEPT ![state.narrativelog_db] = close(@)]
             /\ last_call' = Outcome("delete_shared_state", "", NULL)

get_shared_state ==
    /\ last_call' = IF shared_state = NULL
                    THEN Outcome("get_shared_state", "RuntimeError", NULL)
                    ELSE Outcome("get_shared_state", "", shared_state)
    /\ UNCHANGED <<shared_state, databases>>

CreateSharedState ==
    /\ \E environ \in Environments : create_shared_state(environ)
    /\ UNCHANGED <<messages, jira_fields, now, resp, txn, calls>>

DeleteSharedState ==
    /\ delete_shared_state
    /\ UNCHANGED <<messages, jira_fields, now, resp, txn, calls>>

GetSharedState ==
    /\ get_shared_state
    /\ UNCHANGED <<messages, jira_fields, now, resp, txn, calls>>

\* state.narrativelog_db.close() by a caller that kept a reference to a
\* state it got.
CloseDatabase ==
    /\ \E db \in DOMAIN databases :
          /\ databases' = [databases EXCEPT ![db] = close(@)]
          /\ last_call' = Outcome("close", "", Some(db))
    /\ UNCHANGED <<messages, jira_fields, now, resp, txn, calls,
                   shared_state>>

NextState ==
    CreateSharedState \/ DeleteSharedState \/ GetSharedState
        \/ CloseDatabase

SpecState == InitState /\ [][NextState]_vars

\* ---------------------------------------------------------------------
\* Calls of create_shared_state and delete_shared_state in flight together
\* on one event loop: a call runs from one await to the next without
\* interruption, and the start task of a database runs as a task of its
\* own.
\* ---------------------------------------------------------------------
\* create_shared_state up to 'await state.narrativelog_db.start_task'.
CreateAwaitsStart(c, environ) ==
    /\ calls[c].pc = "idle"
    /\ IF shared_state # NULL
       THEN /\ last_call' =
                  Outcome("create_shared_state", "RuntimeError", NULL)
            /\ UNCHANGED <<databases, calls>>
       ELSE IF SiteIdError(environ)
       THEN /\ last_call' =
                  Outcome("create_shared_state", "ValueError", NULL)
            /\ UNCHANGED <<databases, calls>>
       ELSE /\ Len(databases) < MaxDatabases
            /\ databases' = Append(databases, LogMessageDatabase(environ))
            /\ calls' = [calls EXCEPT ![c] =
                  [pc |-> "await_start",
                   state |-> Some(SharedState(environ,
                                              Len(databases) + 1))]]
            /\ UNCHANGED last_call
    /\ UNCHANGED <<messages, jira_fields, now, resp, txn, shared_state>>

\* The event loop runs the start task of a database.
RunStartTask(db) ==
    /\ databases[db].start_task = "pending"
    /\ databases' = [databases EXCEPT ![db] = start(@)]
    /\ UNCHANGED <<messages, jira_fields, now, resp, txn, shared_state,
                   calls, last_call>>

\* The start task has finished: the await returns and the state is
\* assigned to _shared_state, or the await raises.
CreateResumes(c) ==
    LET state == Val(calls[c].state)
        database == databases[state.narrativelog_db]
    IN  /\ calls[c].pc = "await_start"
        /\ database.start_task # "pending"
        /\ IF database.start_task = "done"
           THEN /\ shared_state' = Installed(state, database)
                /\ last_call' = Outcome("create_shared_state", "", NULL)
           ELSE /\ UNCHANGED shared_state
                /\ last_call' =
                      Outcome("create_shared_state",
                              IF database.start_task = "failed"
                              THEN "OSError" ELSE "CancelledError", NULL)
        /\ calls' = [calls EXCEPT ![c] = IdleCall]
        /\ UNCHANGED <<messages, jira_fields, now, resp, txn, databases>>

\* delete_shared_state up to 'await self.engine.dispose()' in close.
DeleteAwaitsDispose(c) ==
    /\ calls[c].pc = "idle"
    /\ IF shared_state = NULL
       THEN /\ last_call' = Outcome("delete_shared_state", "", NULL)
            /\ UNCHANGED <<shared_state, databases, calls>>
       ELSE LET state == Val(shared_state)
            IN  /\ shared_state' = NULL
                /\ databases' =
                      [databases EXCEPT ![state.narrativelog_db] = close(@)]
                /\ IF databases[state.narrativelog_db].closed
                   THEN /\ last_call' =
                              Outcome("delete_shared_state", "", NULL)
                        /\ UNCHANGED calls
                   ELSE /\ calls' = [calls EXCEPT ![c] =
                              [pc |-> "await_dispose",
                               state |-> Some(state)]]
                        /\ UNCHANGED last_call
    /\ UNCHANGED <<messages, jira_fields, now, resp, txn>>

\* The engine is disposed and delete_shared_state returns.
DeleteResumes(c) ==
    /\ calls[c].pc = "await_dispose"
    /\ calls' = [calls EXCEPT ![c] = IdleCall]
    /\ last_call' = Outcome("delete_shared_state", "", NULL)
    /\ UNCHANGED <<messages, jira_fields, now, resp, txn, shared_state,
                   databases>>

StartCreate ==
    \E c \in 1..NumCalls : \E environ \in Environments :
        CreateAwaitsStart(c, environ)

StartTask == \E db \in DOMAIN databases : RunStartTask(db)

EndCreate == \E c \in 1..NumCalls : CreateResumes(c)

StartDeleteState == \E c \in 1..NumCalls : DeleteAwaitsDispose(c)

EndDeleteState == \E c \in 1..NumCalls : DeleteResumes(c)

NextStateConc ==
    \/ StartCreate
    \/ StartTask
    \/ EndCreate
    \/ StartDeleteState
    \/ EndDeleteState
    \/ GetSharedState

SpecStateConc == InitState /\ [][NextStateConc]_vars

\* ---------------------------------------------------------------------
\* Requests in flight together.  Each await of a statement is a step; a
\* transaction's writes are applied to the tables when it commits, and a
\* statement that needs a row lock held by another transaction waits.
\* Every read of the clock returns a later value than the read before it.
\* ---------------------------------------------------------------------
ConcAddBodies == { RequiredAddBody }

ConcEditBodies ==
    { [message_text |-> "New message text"],
      [tags |-> <<tag_bad_digit, tag_ab>>] }

\* No row lock is ever seen as held by another transaction.
LockedByOther_NoRowLock(t, key) == FALSE

\* Another transaction holds the row lock key = <<table, id>>.
LockedByOther(t, key) == \E o \in Txns \ {t} : key \in txn[o].locks

LockHolders(t, key) == {o \in Txns \ {t} : key \in txn[o].locks}

\* The transaction keeps its row locks after it has ended.
ReleasedLocks_KeptAfterEnd(locks) == locks

\* The row locks of a transaction after its commit or rollback at the end
\* of 'async with engine.begin()': none.
ReleasedLocks(locks) == {}

\* Primary keys of rows inserted by transactions that have not committed.
PendingIds(field) ==
    {Val(txn[o][field])["id"] : o \in {x \in Txns : txn[x][field] # NULL}}

\* Requests are numbered in the order in which they arrive.
NextArrival(t) ==
    /\ txn[t].pc = "idle"
    /\ \A o \in Txns : o < t => txn[o].pc # "idle"

\* The handler runs up to its first statement: normalize_tags.
BeginEdit(t, id, body) ==
    LET args == EditArgs(body)
        ok == args["tags"] = NULL \/ normalize_tags(Val(args["tags"])).ok
    IN  /\ NextArrival(t)
        /\ txn' = [txn EXCEPT ![t] =
                     [IdleTxn EXCEPT !.op = "edit", !.id = id,
                                     !.args = Some(args),
                                     !.pc = IF ok THEN "select_parent"
                                            ELSE "done",
                                     !.status = IF ok THEN 0
                                                ELSE HTTP_BAD_REQUEST]]
        /\ UNCHANGED <<messages, jira_fields, now, resp, lifecycle>>

\* SELECT ... FOR UPDATE finds the row locked by another transaction.
EditWaitsForParent(t) ==
    /\ txn[t].op = "edit"
    /\ txn[t].pc = "select_parent"
    /\ txn[t].id \in DOMAIN messages
    /\ \E o \in LockHolders(t, <<"message", txn[t].id>>) \ txn[t].waited :
          txn' = [txn EXCEPT ![t].waited = @ \cup {o}]
    /\ UNCHANGED <<messages, jira_fields, now, resp, lifecycle>>

\* SELECT ... WHERE id = parent_id FOR UPDATE returns: the committed row,
\* now locked, or no row (404, the transaction ends).
EditSelectParent(t) ==
    LET id == txn[t].id
    IN  /\ txn[t].op = "edit"
        /\ txn[t].pc = "select_parent"
        /\ IF id \notin DOMAIN messages
           THEN txn' = [txn EXCEPT ![t].pc = "done",
                                   ![t].status = HTTP_NOT_FOUND]
           ELSE /\ ~LockedByOther(t, <<"message", id>>)
                /\ txn' = [txn EXCEPT ![t].pc = "select_jira",
                                      ![t].parent = Some(messages[id]),
                                      ![t].locks = @ \cup {<<"message", id>>}]
        /\ UNCHANGED <<messages, jira_fields, now, resp, lifecycle>>

\* The statements from the jira_fields select to the joined select; they
\* touch only the locked parent and the transaction's own new rows.
EditWrite(t) ==
    LET id == txn[t].id
        args == Val(txn[t].args)
        tags == IF args["tags"] # NULL
                THEN normalize_tags(Val(args["tags"])).tags ELSE <<>>
        request_data == EditRequestData(id, args, Some(tags))
        parent_message_row == Val(txn[t].parent)
        parent_jira == ParentJiraFields(parent_message_row, jira_fields)
        parent_jira_id == CHOOSE i \in parent_jira : TRUE
        current_tai == now
    IN  /\ txn[t].op = "edit"
        /\ txn[t].pc = "select_jira"
        /\ IF parent_jira = {}
           THEN \* AttributeError: the transaction rolls back.
                txn' = [txn EXCEPT ![t].pc = "done",
                                   ![t].status = HTTP_INTERNAL_SERVER_ERROR,
                                   ![t].locks = ReleasedLocks(@)]
           ELSE /\ ~LockedByOther(t, <<"jira_fields", parent_jira_id>>)
                /\ \E row_jira_fields \in
                         {JiraFieldsRow(uuid4((DOMAIN jira_fields)
                                                 \cup PendingIds("ins_jira")),
                              EditNewJiraFieldsData(
                                  jira_fields[parent_jira_id],
                                  request_data))} :
                   \E row_message \in
                         {MessageRow(uuid4((DOMAIN messages)
                                              \cup PendingIds("ins_message")),
                              EditNewMessageData(parent_message_row,
                                  request_data, current_tai, id,
                                  row_jira_fields["id"]))} :
                      txn' = [txn EXCEPT
                         ![t].pc = "commit",
                         ![t].tai = current_tai,
                         ![t].locks =
                            @ \cup {<<"jira_fields", parent_jira_id>>},
                         ![t].ins_jira = Some(row_jira_fields),
                         ![t].ins_message = Some(row_message),
                         ![t].upd = Some(Some(current_tai)),
                         ![t].body =
                            Some(MessageFromOuterJoin(row_message,
                                    Insert(jira_fields, row_jira_fields)))]
        /\ now' = IF parent_jira = {} THEN now ELSE now + 1
        /\ UNCHANGED <<messages, jira_fields, resp, lifecycle>>

\* The transaction commits and the handler returns the child.
EditCommit(t) ==
    /\ txn[t].op = "edit"
    /\ txn[t].pc = "commit"
    /\ messages' = UpdateDateInvalidated(
                       Insert(messages, Val(txn[t].ins_message)),
                       txn[t].id, Val(txn[t].upd))
    /\ jira_fields' = Insert(jira_fields, Val(txn[t].ins_jira))
    /\ txn' = [txn EXCEPT ![t].pc = "done", ![t].status = HTTP_OK,
                          ![t].locks = ReleasedLocks(@)]
    /\ UNCHANGED <<now, resp, lifecycle>>

\* The handler reads the clock before it opens the transaction.
BeginDelete(t, id) ==
    /\ NextArrival(t)
    /\ txn' = [txn EXCEPT ![t] =
                 [IdleTxn EXCEPT !.op = "delete", !.id = id, !.tai = now,
                                 !.pc = "update"]]
    /\ now' = now + 1
    /\ UNCHANGED <<messages, jira_fields, resp, lifecycle>>

\* UPDATE finds the row locked by another transaction.
DeleteWaitsForRow(t) ==
    /\ txn[t].op = "delete"
    /\ txn[t].pc = "update"
    /\ txn[t].id \in DOMAIN messages
    /\ \E o \in LockHolders(t, <<"message", txn[t].id>>) \ txn[t].waited :
          txn' = [txn EXCEPT ![t].waited = @ \cup {o}]
    /\ UNCHANGED <<messages, jira_fields, now, resp, lifecycle>>

\* UPDATE ... SET date_invalidated = coalesce(date_invalidated, current_tai)
DeleteUpdate(t) ==
    LET id == txn[t].id
    IN  /\ txn[t].op = "delete"
        /\ txn[t].pc = "update"
        /\ IF id \notin DOMAIN messages
           THEN txn' = [txn EXCEPT ![t].pc = "commit"]
           ELSE /\ ~LockedByOther(t, <<"message", id>>)
                /\ txn' = [txn EXCEPT
                      ![t].pc = "commit",
                      ![t].locks = @ \cup {<<"message", id>>},
                      ![t].upd = Some(coalesce(
                                    messages[id]["date_invalidated"],
                                    Some(txn[t].tai)))]
        /\ UNCHANGED <<messages, jira_fields, now, resp, lifecycle>>

\* The transaction commits; rowcount decides between 404 and 204.
DeleteCommit(t) ==
    /\ txn[t].op = "delete"
    /\ txn[t].pc = "commit"
    /\ messages' = IF txn[t].upd # NULL
                   THEN UpdateDateInvalidated(messages, txn[t].id,
                                              Val(txn[t].upd))
                   ELSE messages
    /\ txn' = [txn EXCEPT ![t].pc = "done",
                          ![t].status = IF txn[t].upd = NULL
                                        THEN HTTP_NOT_FOUND
                                        ELSE HTTP_NO_CONTENT,
                          ![t].locks = ReleasedLocks(@)]
    /\ UNCHANGED <<jira_fields, now, resp, lifecycle>>

ConcAdd == (\E body \in ConcAddBodies : add_message(body)) /\ UNCHANGED <<txn, lifecycle>>

StartEdit == \E t \in Txns : \E id \in RequestIds :
                \E body \in ConcEditBodies : BeginEdit(t, id, body)

StartDelete == \E t \in Txns : \E id \in RequestIds : BeginDelete(t, id)

EditWait == \E t \in Txns : EditWaitsForParent(t)

EditRead == \E t \in Txns : EditSelectParent(t)

EditBody == \E t \in Txns : EditWrite(t)

EditEnd == \E t \in Txns : EditCommit(t)

DeleteWait == \E t \in Txns : DeleteWaitsForRow(t)

DeleteBody == \E t \in Txns : DeleteUpdate(t)

DeleteEnd == \E t \in Txns : DeleteCommit(t)

NextConc ==
    \/ ConcAdd
    \/ StartEdit
    \/ EditWait
    \/ EditRead
    \/ EditBody
    \/ EditEnd
    \/ StartDelete
    \/ DeleteWait
    \/ DeleteBody
    \/ DeleteEnd

SpecConc == Init /\ [][NextConc]_vars

\* Every statement that the database can execute returns: a handler whose
\* next statement needs no row lock held by another transaction goes on.
StatementReturns ==
    \E t \in Txns :
        \/ EditSelectParent(t)
        \/ EditWrite(t)
        \/ EditCommit(t)
        \/ DeleteUpdate(t)
        \/ DeleteCommit(t)

SpecConcFair == Init /\ [][NextConc]_vars /\ WF_vars(StatementReturns)

\* ---------------------------------------------------------------------
\* Properties of requests served one at a time
\* ---------------------------------------------------------------------
EditSucceeded(r) == r.op = "edit" /\ r.status = HTTP_OK

\* C1: after a successful edit(id, partial) the parent row id has
\* date_invalidated set and is_valid false, and the returned child is a new
\* row, with an id no row had before, parent_id = id, is_valid true and
\* date_invalidated null.
EditSupersedesParent ==
    [][ EditSucceeded(resp') =>
          LET id == resp'.id
              child == Val(resp'.body)
          IN  /\ child["id"] \notin DOMAIN messages
              /\ child["id"] \in DOMAIN messages'
              /\ DOMAIN messages' = (DOMAIN messages) \cup {child["id"]}
              /\ messages'[id]["date_invalidated"] # NULL
              /\ messages'[id]["is_valid"] = FALSE
              /\ child["parent_id"] = Some(id)
              /\ child["is_valid"] = TRUE
              /\ child["date_invalidated"] = NULL
              /\ messages'[child["id"]]["parent_id"] = Some(id)
              /\ messages'[child["id"]]["is_valid"] = TRUE
              /\ messages'[child["id"]]["date_invalidated"] = NULL ]_vars

EditHasSucceeded == EditSucceeded(resp)

\* The fields an edit is compared on.
EditComparedFields ==
    MessageModelFields \
        {"id", "parent_id", "date_added", "is_valid", "date_invalidated"}

\* The value the request u asks for in field f of the child of p: its own
\* value when it provides f (tags as normalized), the parent's otherwise.
EditOverlay(f, u, p) ==
    IF f \in EditNames /\ u[f] # NULL
    THEN IF f = "tags"
         THEN Some([i \in 1..Len(Val(u[f])) |-> TagLower(Val(u[f])[i])])
         ELSE u[f]
    ELSE p[f]

\* C2 as stated: every compared field of the child is the request's value
\* when the request provides the field and the parent's value otherwise.
EditOverlaysEveryField ==
    [][ EditSucceeded(resp') =>
          LET p == MessageFromOuterJoin(messages[resp'.id], jira_fields)
              u == Val(resp'.args)
              child == Val(resp'.body)
          IN  \A f \in EditComparedFields :
                 child[f] = EditOverlay(f, u, p) ]_vars

\* C2: every compared field of the child other than site_id is the
\* request's value when the request provides the field and the parent's
\* value otherwise, so no field that the request leaves out is reset;
\* site_id is the site of the service, whatever the request provides.
EditOverlaysFieldsExceptSite ==
    [][ EditSucceeded(resp') =>
          LET p == MessageFromOuterJoin(messages[resp'.id], jira_fields)
              u == Val(resp'.args)
              child == Val(resp'.body)
          IN  /\ \A f \in EditComparedFields \ {"site_id"} :
                    child[f] = EditOverlay(f, u, p)
              /\ child["site_id"] = Some(SITE_ID) ]_vars

PartialEditHasSucceeded ==
    /\ EditSucceeded(resp)
    /\ \E f \in EditNames : Val(resp.args)[f] # NULL
    /\ \E f \in EditNames : Val(resp.args)[f] = NULL
    /\ Val(resp.args)["site_id"] # NULL

\* C3 as stated: an edit with valid tags returns 404 exactly when no row
\* has the id, and 200 with the child for every id that has a row.
EditNotFoundIffNoRow ==
    (resp.op = "edit" /\ resp.status # HTTP_BAD_REQUEST) =>
        /\ (resp.status = HTTP_NOT_FOUND) <=> (resp.id \notin DOMAIN messages)
        /\ (resp.id \in DOMAIN messages) =>
              (resp.status = HTTP_OK /\ resp.body # NULL)

RECURSIVE Root(_)
\* The first message of the edit chain of message id.
Root(id) == IF messages[id]["parent_id"] = NULL THEN id
            ELSE Root(Val(messages[id]["parent_id"]))

Chain(root) == {id \in DOMAIN messages : Root(id) = root}

Children(id) == {c \in DOMAIN messages : messages[c]["parent_id"] = Some(id)}

ValidIn(ids) == {id \in ids : messages[id]["is_valid"]}

\* C4 as stated: every edit chain holds at most one valid message.
OneValidPerChain ==
    \A root \in DOMAIN messages : Cardinality(ValidIn(Chain(root))) <= 1

\* C4: an edit chain in which no message has been edited more than once
\* holds at most one valid message.
OneValidPerUnbranchedChain ==
    \A root \in DOMAIN messages :
        (\A id \in Chain(root) : Cardinality(Children(id)) <= 1) =>
            Cardinality(ValidIn(Chain(root))) <= 1

UnbranchedChainOfThree ==
    \E root \in DOMAIN messages :
        /\ Cardinality(Chain(root)) >= 3
        /\ \A id \in Chain(root) : Cardinality(Children(id)) <= 1
        /\ Cardinality(ValidIn(Chain(root))) = 1

\* C7: a request never removes a message row, and changes nothing in an
\* existing row but date_invalidated (and is_valid, generated from it),
\* which it only ever sets to a non-null value: an invalid message stays
\* invalid.
RowsOnlyEverInvalidated ==
    [][ \A id \in DOMAIN messages :
          /\ id \in DOMAIN messages'
          /\ \A c \in MessageColumns \ {"date_invalidated", "is_valid"} :
                messages'[id][c] = messages[id][c]
          /\ (messages'[id]["date_invalidated"]
                 # messages[id]["date_invalidated"])
                => messages'[id]["date_invalidated"] # NULL
          /\ (messages[id]["date_invalidated"] # NULL)
                => messages'[id]["date_invalidated"] # NULL
          /\ (messages[id]["is_valid"] = FALSE)
                => (messages'[id]["is_valid"] = FALSE) ]_vars

InvalidatedRowAmongOthers ==
    /\ Cardinality(DOMAIN messages) >= 2
    /\ \E id \in DOMAIN messages :
          /\ messages[id]["date_invalidated"] # NULL
          /\ messages[id]["date_invalidated"] # messages[id]["date_added"]

\* C8: every message, stored or returned, has is_valid true exactly when
\* its date_invalidated is null.
IsValidIffNotInvalidated ==
    /\ \A id \in DOMAIN messages :
          messages[id]["is_valid"] = (messages[id]["date_invalidated"] = NULL)
    /\ (resp.body # NULL) =>
          (Val(resp.body)["is_valid"]
              = (Val(resp.body)["date_invalidated"] = NULL))

ValidAndInvalidMessages ==
    /\ \E id \in DOMAIN messages : messages[id]["is_valid"] = FALSE
    /\ \E id \in DOMAIN messages : messages[id]["is_valid"] = TRUE

\* C9: delete(id) returns 404 and changes nothing when no row has the id;
\* otherwise it returns 204, sets date_invalidated to the current time when
\* it is null, and leaves every row as it is when it is already set.
DeleteInvalidatesOnce ==
    [][ (resp'.op = "delete") =>
          LET id == resp'.id
          IN  IF id \notin DOMAIN messages
              THEN resp'.status = HTTP_NOT_FOUND /\ messages' = messages
              ELSE /\ resp'.status = HTTP_NO_CONTENT
                   /\ IF messages[id]["date_invalidated"] # NULL
                      THEN messages' = messages
                      ELSE messages' =
                             [messages EXCEPT
                                ![id]["date_invalidated"] = Some(now),
                                ![id]["is_valid"] = FALSE] ]_vars

DeletedAlreadyInvalid ==
    /\ resp.op = "delete"
    /\ resp.status = HTTP_NO_CONTENT
    /\ resp.id \in DOMAIN messages
    /\ messages[resp.id]["date_invalidated"] # NULL
    /\ Val(messages[resp.id]["date_invalidated"]) < resp.tai

\* C10: a successful add inserts exactly one new row and changes no other;
\* the row is valid, has no parent, the site of the service, the current
\* time as date_added, the lowercased request tags, every other supplied
\* field as given and the defaults for omitted ones ([] for tags and urls,
\* 0 for time_lost, null otherwise); the returned message is that row.
AddStoresRequest ==
    [][ (resp'.op = "add" /\ resp'.status = HTTP_OK) =>
          LET id == resp'.id
              body == Val(resp'.args)
              m == Val(resp'.body)
              tags == IF "tags" \in DOMAIN body THEN body["tags"] ELSE <<>>
          IN  /\ id \notin DOMAIN messages
              /\ DOMAIN messages' = (DOMAIN messages) \cup {id}
              /\ \A i \in DOMAIN messages : messages'[i] = messages[i]
              /\ m["id"] = id
              /\ m = MessageFromOuterJoin(messages'[id], jira_fields')
              /\ m["is_valid"] = TRUE
              /\ m["date_invalidated"] = NULL
              /\ m["parent_id"] = NULL
              /\ m["site_id"] = Some(SITE_ID)
              /\ m["date_added"] = Some(now)
              /\ m["tags"] = Some([i \in 1..Len(tags) |-> TagLower(tags[i])])
              /\ \A f \in AddParams \ {"tags"} :
                    m[f] = IF f \in DOMAIN body THEN Some(body[f])
                           ELSE IF f = "urls" THEN Some(<<>>)
                           ELSE IF f = "time_lost" THEN Some(0)
                           ELSE NULL ]_vars

AddedWithDefaultsAfterOthers ==
    /\ resp.op = "add"
    /\ resp.status = HTTP_OK
    /\ "tags" \notin DOMAIN Val(resp.args)
    /\ Cardinality(DOMAIN messages) >= 2

\* ---------------------------------------------------------------------
\* Properties of requests in flight together
\* ---------------------------------------------------------------------
\* Edit a has read its parent row and has not yet committed or rolled back.
EditHoldsParent(a) ==
    txn[a].op = "edit" /\ txn[a].pc \in {"select_jira", "commit"}

\* Edit a has read its parent row.
EditHasReadParent(a) == txn[a].op = "edit" /\ txn[a].parent # NULL

\* Two finished edits of the same id, both with valid tags and both having
\* found the row.
FinishedEditsOfSameRow(a, b) ==
    /\ a # b
    /\ txn[a].op = "edit" /\ txn[b].op = "edit"
    /\ txn[a].id = txn[b].id
    /\ txn[a].pc = "done" /\ txn[b].pc = "done"
    /\ txn[a].status \notin {HTTP_BAD_REQUEST, HTTP_NOT_FOUND}
    /\ txn[b].status \notin {HTTP_BAD_REQUEST, HTTP_NOT_FOUND}

\* C5 as stated: two edits of the same existing id both succeed, each with
\* its own stored child, valid when returned, whose parent_id is the common
\* parent, and the parent ends invalid.
ConcurrentEditsBothSucceed ==
    \A a, b \in Txns :
        FinishedEditsOfSameRow(a, b) =>
            /\ txn[a].status = HTTP_OK
            /\ txn[b].status = HTTP_OK
            /\ txn[a].body # NULL /\ txn[b].body # NULL
            /\ Val(txn[a].body)["id"] # Val(txn[b].body)["id"]
            /\ \A c \in {a, b} :
                  LET child == Val(txn[c].body)
                  IN  /\ child["is_valid"] = TRUE
                      /\ child["parent_id"] = Some(txn[c].id)
                      /\ child["id"] \in DOMAIN messages
                      /\ messages[child["id"]]["parent_id"] = Some(txn[c].id)
                      /\ \A f \in EditComparedFields :
                            MessageFromOuterJoin(messages[child["id"]],
                                                 jira_fields)[f] = child[f]
            /\ messages[txn[a].id]["is_valid"] = FALSE

\* No two edits of the same id are past their parent read and before their
\* commit or rollback at the same time.
ParentReadIsExclusive ==
    \A a, b \in Txns :
        (a # b /\ EditHoldsParent(a) /\ EditHoldsParent(b))
            => txn[a].id # txn[b].id

\* C6 as stated: the parent read of an edit excludes the parent read of
\* another edit of the same id until the first commits or rolls back, and
\* an edit that has waited for another edit then reads the parent as
\* invalidated.
EditWaiterSeesInvalidatedParent ==
    /\ ParentReadIsExclusive
    /\ \A b \in Txns : \A a \in txn[b].waited :
          (EditHasReadParent(b) /\ txn[a].op = "edit") =>
              /\ Val(txn[b].parent)["date_invalidated"] # NULL
              /\ Val(txn[b].parent)["is_valid"] = FALSE

\* What the row lock does give: the parent read of an edit excludes the
\* parent read of another edit of the same id until the first commits or
\* rolls back, and an edit that has waited for an edit that committed then
\* reads the parent as invalidated.
EditWaiterSeesCommittedInvalidation ==
    /\ ParentReadIsExclusive
    /\ \A b \in Txns : \A a \in txn[b].waited :
          (EditHasReadParent(b) /\ txn[a].op = "edit"
              /\ txn[a].status = HTTP_OK) =>
              /\ Val(txn[b].parent)["date_invalidated"] # NULL
              /\ Val(txn[b].parent)["is_valid"] = FALSE

EditReadAfterWaitingForCommit ==
    \E b \in Txns : \E a \in txn[b].waited :
        /\ EditHasReadParent(b)
        /\ txn[a].op = "edit"
        /\ txn[a].status = HTTP_OK
        /\ Val(txn[a].parent)["is_valid"] = TRUE

\* ---------------------------------------------------------------------
\* Failed requests; parent links
\* ---------------------------------------------------------------------
FailedStatus == {HTTP_BAD_REQUEST, HTTP_NOT_FOUND, HTTP_INTERNAL_SERVER_ERROR}

ParentExistsAndIsOlder ==
    \A id \in DOMAIN messages :
        messages[id]["parent_id"] # NULL =>
            LET p == Val(messages[id]["parent_id"])
            IN  /\ p \in DOMAIN messages
                /\ p # id
                /\ Val(messages[p]["date_added"])
                      < Val(messages[id]["date_added"])

EditOfAnEdit ==
    \E id \in DOMAIN messages :
        /\ messages[id]["parent_id"] # NULL
        /\ Val(messages[id]["parent_id"]) \in DOMAIN messages
        /\ messages[Val(messages[id]["parent_id"])]["parent_id"] # NULL

\* ---------------------------------------------------------------------
\* Properties of get and find
\* ---------------------------------------------------------------------
\* C11 as stated: a get of the id that the add just before it returned
\* gives 200 with the message the add returned, and a get gives 404 only
\* for an id that no row has.
GetReturnsWhatAddReturned ==
    [][ (resp'.op = "get") =>
          /\ (resp'.status = HTTP_NOT_FOUND)
                => (resp'.id \notin DOMAIN messages)
          /\ (resp.op = "add" /\ resp.status = HTTP_OK
                 /\ resp'.id = resp.id)
                => (resp'.status = HTTP_OK /\ resp'.body = resp.body) ]_vars

\* The last response is a find that returned messages (possibly none).
FindSucceeded == resp.op = "find" /\ resp.status = HTTP_OK

\* The query of the last find and the ids of the messages it returned.
FoundQuery == Val(resp.args)

FoundIds == {Val(resp.body)[i]["id"] : i \in DOMAIN Val(resp.body)}

ValidIds == {id \in DOMAIN messages : messages[id]["is_valid"]}

InvalidIds == {id \in DOMAIN messages : ~messages[id]["is_valid"]}

\* The ids a successful find of the query returns.
FindIds(query) ==
    LET r == CHOOSE x \in find_messages(query, messages, jira_fields) :
                x.status = HTTP_OK
    IN  {Val(r.body)[i]["id"] : i \in DOMAIN Val(r.body)}

\* C14: a find without is_valid returns valid messages only, and all of
\* them when it has no parameter at all; is_valid=false returns invalid
\* messages only; is_valid=either and is_human=either filter nothing.
FindValidityFilter ==
    FindSucceeded =>
        /\ ("is_valid" \notin DOMAIN FoundQuery) => (FoundIds \subseteq ValidIds)
        /\ (DOMAIN FoundQuery = {}) => (FoundIds = ValidIds)
        /\ (DOMAIN FoundQuery = {"is_valid"}) =>
              FoundIds = CASE FoundQuery["is_valid"] = "true" -> ValidIds
                           [] FoundQuery["is_valid"] = "false" -> InvalidIds
                           [] OTHER -> DOMAIN messages
        /\ ("is_valid" \in DOMAIN FoundQuery
               /\ FoundQuery["is_valid"] = "false") =>
              (FoundIds \subseteq InvalidIds)
        /\ (DOMAIN FoundQuery = {"is_human"}
               /\ FoundQuery["is_human"] = "either") =>
              (FoundIds = ValidIds)

FoundValidAmongInvalid ==
    /\ FindSucceeded
    /\ DOMAIN FoundQuery = {}
    /\ FoundIds # {}
    /\ InvalidIds # {}
    /\ \E i, j \in FoundIds :
          messages[i]["is_human"] # messages[j]["is_human"]

\* The filter parameters of a query: every parameter but is_valid.
FilterParams(query) == (DOMAIN query) \ {"is_valid"}

\* The query cut down to some of its filter parameters, with the same
\* is_valid setting.
SubQuery(query, params) ==
    DictFilter(query, params \cup ({"is_valid"} \cap DOMAIN query))

\* C15: a find with several filter parameters returns the messages that
\* the find of each one parameter and the find of the other parameters
\* (with the same is_valid setting) both return.
FindIsConjunction ==
    (FindSucceeded /\ Cardinality(FilterParams(FoundQuery)) >= 2) =>
        \A p \in FilterParams(FoundQuery) :
            FoundIds =
                FindIds(SubQuery(FoundQuery, {p}))
                  \cap FindIds(SubQuery(FoundQuery,
                                        FilterParams(FoundQuery) \ {p}))

FoundLessThanEitherPart ==
    /\ FindSucceeded
    /\ Cardinality(FilterParams(FoundQuery)) >= 2
    /\ FoundIds # {}
    /\ \A p \in FilterParams(FoundQuery) :
          FindIds(SubQuery(FoundQuery, {p})) # FoundIds

\* The messages a query ranges over by its is_valid setting alone.
BaseIds(query) ==
    IF "is_valid" \notin DOMAIN query \/ query["is_valid"] = "true"
    THEN ValidIds
    ELSE IF query["is_valid"] = "false" THEN InvalidIds
    ELSE DOMAIN messages

RangeParams(query) ==
    {p \in FilterParams(query) : ArgBranch(p) \in {"min", "max"}}

\* The message has a value in the field of range parameter p of the
\* query, and the value is on the side of the bound that p asks for.
InRange(id, query, p) ==
    LET field == ArgColumn(p)
        value == messages[id][field]
    IN  /\ value # NULL
        /\ IF ArgBranch(p) = "min"
           THEN Ordinal(field, Val(value)) >= Ordinal(field, query[p])
           ELSE Ordinal(field, Val(value)) < Ordinal(field, query[p])

\* C16: a find whose filter parameters are min_<field> and max_<field>
\* bounds returns exactly the messages whose field is not null, is at
\* least every min bound and is below every max bound; there are none when
\* the max bound of a field is not above its min bound.
FindRangeBounds ==
    (FindSucceeded /\ RangeParams(FoundQuery) # {}
        /\ RangeParams(FoundQuery) = FilterParams(FoundQuery)) =>
        /\ FoundIds = {id \in BaseIds(FoundQuery) :
                          \A p \in RangeParams(FoundQuery) :
                              InRange(id, FoundQuery, p)}
        /\ (\E p, r \in RangeParams(FoundQuery) :
               /\ ArgBranch(p) = "min" /\ ArgBranch(r) = "max"
               /\ ArgColumn(p) = ArgColumn(r)
               /\ Ordinal(ArgColumn(p), FoundQuery[r])
                     <= Ordinal(ArgColumn(p), FoundQuery[p]))
              => FoundIds = {}

FoundAtMinBoundNotNull ==
    /\ FindSucceeded
    /\ DOMAIN FoundQuery = {"min_date_begin"}
    /\ \E id \in FoundIds :
          messages[id]["date_begin"] = Some(FoundQuery["min_date_begin"])
    /\ \E id \in ValidIds : messages[id]["date_begin"] = NULL
    /\ \E id \in ValidIds \ FoundIds : messages[id]["date_begin"] # NULL

\* The elements of array field F of a message as find reads it: none
\* when the field is null or the message has no jira_fields row.
Elements(id, F) ==
    LET column == MessageFromOuterJoin(messages[id], jira_fields)[F]
    IN  IF column = NULL THEN {} ELSE SeqRange(Val(column))

\* The elements of the list given for an array parameter; tags are
\* compared in lower case.
Wanted(query, p) ==
    IF p \in {"tags", "exclude_tags"}
    THEN {TagLower(t) : t \in SeqRange(query[p])}
    ELSE SeqRange(query[p])

HasInvalidTag(query, p) ==
    p \in DOMAIN query /\ \E t \in SeqRange(query[p]) : ~VALID_TAG_RE(t)

IncludeParam(p) ==
    (CHOOSE a \in SelectArgs :
        a[3] = ArgColumn(p) /\ a[2] \in {"array", "path"})[1]

\* The query that includes, with the same list or path and the same
\* is_valid setting, what the query of one exclude parameter p excludes.
IncludeQuery(query, p) ==
    DictUpdate(DictFilter(query, {"is_valid"}),
               [k \in {IncludeParam(p)} |-> query[p]])

\* C18 as stated: a find whose one filter parameter is an exclude
\* parameter, with a list or a path that names at least one element,
\* returns exactly the messages, among those its is_valid setting selects,
\* that the find of the matching include parameter with the same list or
\* path does not return.
FindExcludeIsComplement ==
    (FindSucceeded /\ Cardinality(FilterParams(FoundQuery)) = 1
        /\ ~NotOfNothing(FindArgs(FoundQuery))) =>
        \A p \in FilterParams(FoundQuery) :
            ArgBranch(p) \in {"exclude", "exclude_path"} =>
                FoundIds = BaseIds(FoundQuery)
                              \ FindIds(IncludeQuery(FoundQuery, p))

\* The keys of a parsed components_path whose value is a non-empty list.
ListKeys(P) == {k \in DOMAIN P : P[k].is_list /\ P[k].items # <<>>}

\* Some element of the list under some key of P is in the list under the
\* same key of the message's components_json.
MatchesPath(id, P) ==
    LET cj == MessageFromOuterJoin(messages[id], jira_fields)["components_json"]
    IN  /\ cj # NULL
        /\ \E k \in ListKeys(P) :
              /\ k \in DOMAIN Val(cj)
              /\ SeqRange(P[k].items) \cap SeqRange(Val(cj)[k]) # {}

FoundByPathOnly ==
    /\ FindSucceeded
    /\ FilterParams(FoundQuery) = {"components_path"}

FoundPath == json_loads(FoundQuery["components_path"]).value

FindEmptyPathMatchesNothing ==
    (FindSucceeded /\ "components_path" \in DOMAIN FoundQuery
        /\ FoundQuery["components_path"] = "{}") => FoundIds = {}

\* C20: a find with components_path {} returns what the find of its other
\* parameters returns: the empty object adds no condition.
FindEmptyPathFiltersNothing ==
    (FindSucceeded /\ "components_path" \in DOMAIN FoundQuery
        /\ FoundQuery["components_path"] = "{}") =>
        FoundIds = FindIds(DictFilter(FoundQuery,
                              (DOMAIN FoundQuery) \ {"components_path"}))

FoundAllByEmptyPath ==
    /\ FoundByPathOnly
    /\ FoundQuery["components_path"] = "{}"
    /\ FoundIds = ValidIds
    /\ Cardinality(FoundIds) >= 2
    /\ InvalidIds # {}

\* The message's components_json, as find reads it, has the key.
HasComponentsKey(id, key) ==
    LET cj == MessageFromOuterJoin(messages[id], jira_fields)["components_json"]
    IN  cj # NULL /\ key \in DOMAIN Val(cj)

\* C21 as stated: a find whose one filter parameter is components_path
\* {"subsystems": []} returns exactly the messages, among those its
\* is_valid setting selects, whose components_json has the key subsystems.
FindEmptyListMatchesKey ==
    (FoundByPathOnly
        /\ FoundQuery["components_path"] = "{\"subsystems\": []}") =>
        FoundIds = {id \in BaseIds(FoundQuery) :
                       HasComponentsKey(id, "subsystems")}

\* The last response is to a find that gave order_by.
FoundOrdered == resp.op = "find" /\ "order_by" \in DOMAIN FoundQuery

\* The entry is the name of a field of Message, or "-" and such a name.
IsOrderByValue(entry) ==
    \E field \in MessageModelFields : entry = field \/ entry = "-" \o field

\* The messages of the last find are in the order of the entry: none
\* comes after a message that the entry puts behind it.
SortedBy(entry) ==
    \A i, j \in DOMAIN Val(resp.body) :
        i < j => ~ItemBefore(entry, messages[Val(resp.body)[j]["id"]],
                                    messages[Val(resp.body)[i]["id"]])

\* C22 as stated: a find with order_by is answered 400 exactly when some
\* entry is not a Message field name with an optional leading "-", and a
\* find whose order_by is one such entry is answered 200 with its
\* messages sorted by that field.
FindOrderByAccepted ==
    FoundOrdered =>
        /\ (resp.status = HTTP_BAD_REQUEST)
              <=> (\E i \in DOMAIN FoundQuery["order_by"] :
                      ~IsOrderByValue(FoundQuery["order_by"][i]))
        /\ (Len(FoundQuery["order_by"]) = 1
               /\ IsOrderByValue(FoundQuery["order_by"][1])) =>
              /\ resp.status = HTTP_OK
              /\ SortedBy(FoundQuery["order_by"][1])

\* The messages a successful find of the query returns, in order.
FindBody(query) ==
    Val((CHOOSE x \in find_messages(query, messages, jira_fields) :
            x.status = HTTP_OK).body)

\* The query without limit and offset, and its page of n rows from row k.
Unpaged(query) == DictFilter(query, (DOMAIN query) \ {"limit", "offset"})

Page(query, n, k) == DictUpdate(query, [limit |-> n, offset |-> k])

RECURSIVE Pages(_, _, _)
\* The pages of n rows of the query from row k on, one after the other,
\* up to the first empty page.
Pages(query, n, k) ==
    LET page == FindBody(Page(query, n, k))
    IN  IF page = <<>> THEN <<>> ELSE page \o Pages(query, n, k + n)

\* limit and offset of the last find.
FoundLimit == Val(FindArgs(FoundQuery)["limit"])

FoundOffset == Val(FindArgs(FoundQuery)["offset"])

Min(a, b) == IF a < b THEN a ELSE b

\* C23: after a successful find, the order that find gives its rows (the
\* order_by list with id appended unless it has id or -id, id alone when
\* there is no list) tells every two messages apart; the find holds the
\* rows offset+1 .. offset+limit of the same find without limit and
\* offset, that is min(limit, remaining) messages and none past the end;
\* and the pages of limit rows for offset 0, limit, 2*limit, ... one after
\* the other are that unpaged find.
FindPagesAreStable ==
    FindSucceeded =>
        LET items == OrderByItems(FindArgs(FoundQuery)["order_by"])
            all == FindBody(Unpaged(FoundQuery))
            remaining == IF Len(all) > FoundOffset
                         THEN Len(all) - FoundOffset ELSE 0
        IN  /\ \A a, b \in DOMAIN messages :
                  a # b => \/ RowBefore(items, messages[a], messages[b])
                           \/ RowBefore(items, messages[b], messages[a])
            /\ items[Len(items)] = "id"
                  \/ \E i \in DOMAIN items : items[i] \in {"id", "-id"}
            /\ Len(Val(resp.body)) = Min(FoundLimit, remaining)
            /\ Val(resp.body)
                  = SubSeq(all, FoundOffset + 1,
                           FoundOffset + Min(FoundLimit, remaining))
            /\ Pages(Unpaged(FoundQuery), FoundLimit, 0) = all

\* A second page that is not full, of messages ordered by a level that
\* two of them share.
FoundShortPageOfTies ==
    /\ FindSucceeded
    /\ DOMAIN FoundQuery = {"order_by", "limit", "offset"}
    /\ FoundQuery["order_by"] = <<"level">>
    /\ FoundOffset = 2
    /\ Len(Val(resp.body)) = 1
    /\ \E a, b \in ValidIds :
          a # b /\ messages[a]["level"] = messages[b]["level"]

\* ^[A-Za-z][A-Za-z0-9_]+$: the tag has at least two characters, starts
\* with a letter and goes on with letters, digits and underscores.
MatchesTagPattern(tag) ==
    /\ Len(tag) >= 2
    /\ tag[1] \in Letters
    /\ \A i \in 2..Len(tag) : tag[i] \in Letters \cup Digits \cup {"_"}

\* The lists hold the same tags the same number of times.
SameTags(s1, s2) ==
    /\ Len(s1) = Len(s2)
    /\ \A tag \in SeqRange(s1) \cup SeqRange(s2) :
          Cardinality({i \in DOMAIN s1 : s1[i] = tag})
             = Cardinality({i \in DOMAIN s2 : s2[i] = tag})

\* C24 as stated: when some tag of the list does not match the pattern,
\* normalize_tags raises the 400 whose detail lists the tags that do not
\* match, in ascending order; otherwise it returns the tags in lower
\* case, as many and in the same order, and returns that list unchanged
\* when called on it.
NormalizeTagsAllOrNothing ==
    (resp.op = "normalize_tags") =>
        LET tags == Val(resp.args)
            offending == SelectSeq(tags, LAMBDA tag : ~MatchesTagPattern(tag))
            out == Val(resp.body)
        IN  IF offending # <<>>
            THEN /\ resp.status = HTTP_BAD_REQUEST
                 /\ SameTags(out, offending)
                 /\ \A i, j \in DOMAIN out :
                       i < j => ~TagLess(out[j], out[i])
            ELSE /\ resp.status = HTTP_OK
                 /\ Len(out) = Len(tags)
                 /\ \A i \in DOMAIN tags : out[i] = TagLower(tags[i])
                 /\ normalize_tags(out).ok
                 /\ normalize_tags(out).tags = out

\* C25: a call of get_shared_state returns the shared state when there is
\* one and raises RuntimeError when there is none; there is one exactly
\* from a create that returns to the next delete: a create that returns
\* installs a state where there was none, a create that raises leaves
\* things as they were (RuntimeError when there is a state, which stays
\* in place; no state otherwise), a delete leaves no state and changes
\* nothing when there was none, a get changes nothing, and closing a
\* closed database changes nothing.
SharedStateLifecycle ==
    [][ LET op == last_call'.op
            raised == last_call'.raised
        IN  /\ (op = "get_shared_state") =>
                  /\ (raised = "") <=> (shared_state # NULL)
                  /\ (raised = "") => last_call'.value = shared_state
                  /\ (raised # "") => raised = "RuntimeError"
                  /\ UNCHANGED <<shared_state, databases>>
            /\ (op = "create_shared_state") =>
                  /\ (shared_state # NULL) =>
                        /\ raised = "RuntimeError"
                        /\ UNCHANGED <<shared_state, databases>>
                  /\ (raised = "") =>
                        shared_state = NULL /\ shared_state' # NULL
                  /\ (raised # "") => shared_state' = shared_state
            /\ (op = "delete_shared_state") =>
                  /\ raised = ""
                  /\ shared_state' = NULL
                  /\ (shared_state = NULL) => UNCHANGED databases
            /\ (op = "close") =>
                  /\ shared_state' = shared_state
                  /\ databases[Val(last_call'.value)].closed =>
                        UNCHANGED databases ]_vars

\* A create has failed on the database, and after a create and a delete
\* the database of the deleted state is closed a second time, with no
\* shared state left.
ClosedAgainAfterFailedCreate ==
    /\ last_call.op = "close"
    /\ shared_state = NULL
    /\ Len(databases) >= 2
    /\ \E db \in DOMAIN databases : databases[db].start_task = "failed"
    /\ \E db \in DOMAIN databases :
          databases[db].closed /\ databases[db].start_task = "done"

\* The category or time lost type of the message is one of the entries,
\* or holds one of them as a fragment.
MatchesEntry(id, field, entries) ==
    /\ messages[id][field] # NULL
    /\ \E entry \in SeqRange(entries) :
          \/ Val(messages[id][field]) = entry
          \/ <<Val(messages[id][field]), entry>> \in Fragments

\* C26 as stated: a find whose one filter parameter is categories or
\* time_lost_types returns exactly the messages, among those its is_valid
\* setting selects, whose category or time_lost_type matches an entry of
\* the list, and a find of exclude_categories or exclude_time_lost_types
\* returns none of the messages that match an entry.
FindCategoriesFilter ==
    FindSucceeded =>
        /\ \A p \in {"categories", "time_lost_types"} :
              (FilterParams(FoundQuery) = {p}) =>
                  FoundIds = {id \in BaseIds(FoundQuery) :
                      MatchesEntry(id,
                          IF p = "categories" THEN "category"
                          ELSE "time_lost_type", FoundQuery[p])}
        /\ \A p \in {"exclude_categories", "exclude_time_lost_types"} :
              (FilterParams(FoundQuery) = {p}) =>
                  \A id \in FoundIds :
                      ~MatchesEntry(id,
                          IF p = "exclude_categories" THEN "category"
                          ELSE "time_lost_type", FoundQuery[p])

\* C27: in the committed tables, every message that some message names as
\* its parent_id is stored, has date_invalidated set and is not valid.
ParentsAreInvalidated ==
    \A id \in DOMAIN messages :
        (messages[id]["parent_id"] # NULL) =>
            LET parent_id == Val(messages[id]["parent_id"])
            IN  /\ parent_id \in DOMAIN messages
                /\ messages[parent_id]["date_invalidated"] # NULL
                /\ ~messages[parent_id]["is_valid"]

\* An edit has committed its child while another edit, which has read a
\* parent and written its rows, has not yet committed.
ChildCommittedBesideOpenEdit ==
    /\ \E id \in DOMAIN messages : messages[id]["parent_id"] # NULL
    /\ \E t \in Txns :
          /\ txn[t].op = "edit"
          /\ txn[t].pc = "commit"
          /\ txn[t].ins_message # NULL

\* C28 as stated: a shared state that is installed is not replaced by
\* another while it stays installed, and a create_shared_state that
\* returns has installed its state where there was none: of two creates
\* in flight together only one returns.
SharedStateNeverReplaced ==
    [][ /\ (shared_state # NULL /\ shared_state' # NULL) =>
              shared_state' = shared_state
        /\ (\E c \in 1..NumCalls :
               /\ calls[c].pc = "await_start"
               /\ calls'[c].pc = "idle"
               /\ last_call'.raised = "") =>
              shared_state = NULL ]_vars

\* The row lock that the next statement of the request needs.
WantedLock(t) ==
    CASE txn[t].pc \in {"select_parent", "update"}
            /\ txn[t].id \in DOMAIN messages -> {<<"message", txn[t].id>>}
      [] txn[t].pc = "select_jira" ->
            {<<"jira_fields", j>> :
                j \in ParentJiraFields(Val(txn[t].parent), jira_fields)}
      [] OTHER -> {}

\* The next statement of request t waits for a row lock that o holds.
WaitsFor(t, o) == t # o /\ WantedLock(t) \cap txn[o].locks # {}

\* C29: a request that holds a row lock another request waits for is not
\* itself waiting, so no requests wait for each other in a cycle; a
\* request that has ended holds no row lock; and from some time on every
\* edit and delete that has arrived has ended.
EditsAndDeletesComplete ==
    /\ [](\A t, o \in Txns :
             WaitsFor(t, o) => \A x \in Txns : ~WaitsFor(o, x))
    /\ [](\A t \in Txns : txn[t].pc = "done" => txn[t].locks = {})
    /\ <>[](\A t \in Txns : txn[t].pc \in {"idle", "done"})

\* An edit waits for the row lock of its parent, which another edit
\* holds.
EditWaitsForEdit ==
    \E t, o \in Txns :
        /\ WaitsFor(t, o)
        /\ txn[t].op = "edit"
        /\ txn[o].op = "edit"
        /\ o \in txn[t].waited

\* C30: find with components_path or exclude_components_path ends in 400
\* or in 200 whatever the text is, and in 400 when the text is not valid
\* JSON.
FindPathEndsIn400Or200 ==
    (/\ resp.op = "find"
     /\ \E key \in {"components_path", "exclude_components_path"} :
           key \in DOMAIN Val(resp.args))
        => /\ resp.status \in {HTTP_BAD_REQUEST, HTTP_OK}
           /\ (\E key \in {"components_path", "exclude_components_path"} :
                  /\ key \in DOMAIN Val(resp.args)
                  /\ ~json_loads(Val(resp.args)[key]).ok)
                 => resp.status = HTTP_BAD_REQUEST

====
